---- MODULE Spec2Model ----
(***************************************************************************)
(* Password utility: generation, analysis, scoring and policy validation.  *)
(*                                                                         *)
(* A character is its code point (an integer); a string is a sequence of   *)
(* code points.  A call either returns a value or raises an exception:     *)
(* Return(v) and Raise(e) are the two outcomes.  The values the CSPRNG     *)
(* (the secrets module) hands to a call are an explicit argument of the    *)
(* operator that models the call, and the actions enumerate them.  A label *)
(* or a message whose characters the program never inspects is written as  *)
(* a TLA+ string.  The variables analyzer and validator hold the fields of  *)
(* the two long-lived instances a caller shares between calls.              *)
(***************************************************************************)
EXTENDS Integers, Sequences, FiniteSets, TLC

VARIABLES call, ret, generator, analyzer, validator, threads

vars == <<call, ret, generator, analyzer, validator, threads>>

----------------------------------------------------------------------------
(* Bounds of the model *)

\* Largest length for which every sampled outcome of the draws is enumerated.
MaxGenLen == 4

\* Number of evenly spaced values enumerated in the range of each draw.
DrawSamples == 2

\* Largest list handed to secure_shuffle on its own.
MaxItems == 4

\* Largest batch size handed to generate_multiple.
MaxCount == 2

----------------------------------------------------------------------------
(* Outcomes of a call *)

Return(v) == [kind |-> "return", value |-> v]

Raise(e) == [kind |-> "raise", exc |-> e]

NoCall == [op |-> "none"]

NoRet == [kind |-> "none"]

----------------------------------------------------------------------------
(* config/settings.py *)

MIN_PASSWORD_LENGTH == 4

MAX_PASSWORD_LENGTH == 128

----------------------------------------------------------------------------
(* src/core/constants.py: the character sets, as sequences of code points *)

\* string.ascii_uppercase: "A".."Z"
UPPERCASE == [i \in 1..26 |-> 64 + i]

\* string.ascii_lowercase: "a".."z"
LOWERCASE == [i \in 1..26 |-> 96 + i]

\* string.digits: "0".."9"
DIGITS == [i \in 1..10 |-> 47 + i]

\* string.punctuation: !"#$%&'()*+,-./  :;<=>?@  [\]^_`  {|}~
SYMBOLS ==
    [i \in 1..32 |-> IF i <= 15 THEN 32 + i
                     ELSE IF i <= 22 THEN 42 + i
                     ELSE IF i <= 28 THEN 68 + i
                     ELSE 94 + i]

----------------------------------------------------------------------------
(* src/core/exceptions.py *)

\* Mutant: the bounds are stored in each other's field.
M_InvalidLengthError(length, min_len, max_len) ==
    [type |-> "InvalidLengthError", length |-> length,
     min_len |-> max_len, max_len |-> min_len]

InvalidLengthError(length, min_len, max_len) ==
    [type |-> "InvalidLengthError", length |-> length,
     min_len |-> min_len, max_len |-> max_len]

InvalidCharsetError == [type |-> "InvalidCharsetError"]

ValueError(msg) == [type |-> "ValueError", message |-> msg]

----------------------------------------------------------------------------
(* src/core/security.py *)

\* secrets.choice(sequence) returns sequence[r], r the value the CSPRNG draws
\* in 0..len(sequence)-1 (0-based; position r + 1 of the TLA+ sequence).
secure_random_choice(sequence, r) ==
    IF sequence = <<>>
    THEN Raise(ValueError("Cannot choose from empty sequence"))
    ELSE Return(sequence[r + 1])

\* Mutant: a draw of 0 is taken for "no swap".
M_swap(shuffled, i, j) ==
    IF j = 0 THEN shuffled
    ELSE [shuffled EXCEPT ![i + 1] = shuffled[j + 1], ![j + 1] = shuffled[i + 1]]

\* shuffled[i], shuffled[j] = shuffled[j], shuffled[i]  (0-based i, j)
swap(shuffled, i, j) ==
    [shuffled EXCEPT ![i + 1] = shuffled[j + 1], ![j + 1] = shuffled[i + 1]]

\* for i in range(n - 1, 0, -1): j = secrets.randbelow(i + 1); swap.
\* js[i] is the value randbelow(i + 1) returns at loop index i. The loop starts
\* at i = n - 1, so i >= Len(shuffled) never holds: the test only has the list
\* evaluated at every iteration rather than once at the end.
RECURSIVE fisher_yates(_, _, _)
fisher_yates(shuffled, i, js) ==
    IF i < 1 \/ i >= Len(shuffled) THEN shuffled
    ELSE fisher_yates(swap(shuffled, i, js[i]), i - 1, js)

\* Mutant: no copy is made, the loop shuffles the caller's list itself.
M_secure_shuffle(items, js) ==
    LET shuffled == items
        n == Len(shuffled)
        r == fisher_yates(shuffled, n - 1, js)
    IN  [result |-> r, items |-> r]

\* shuffled = items.copy() is a new list; the loop writes to the copy only.
\* result: the list returned; items: the caller's list when the call returns.
secure_shuffle(items, js) ==
    LET shuffled == items
        n == Len(shuffled)
    IN  [result |-> fisher_yates(shuffled, n - 1, js), items |-> items]

----------------------------------------------------------------------------
(* src/generator/charset_builder.py *)

OptionKeys == {"uppercase", "lowercase", "numbers", "symbols"}

\* Mutant: the digits are added whether or not numbers is enabled.
M_build_charset(options) ==
    Return((IF options["uppercase"] THEN UPPERCASE ELSE <<>>)
           \o (IF options["lowercase"] THEN LOWERCASE ELSE <<>>)
           \o DIGITS
           \o (IF options["symbols"] THEN SYMBOLS ELSE <<>>))

build_charset(options) ==
    LET charset ==
            (IF options["uppercase"] THEN UPPERCASE ELSE <<>>)
            \o (IF options["lowercase"] THEN LOWERCASE ELSE <<>>)
            \o (IF options["numbers"] THEN DIGITS ELSE <<>>)
            \o (IF options["symbols"] THEN SYMBOLS ELSE <<>>)
    IN  IF charset = <<>>
        THEN Raise(ValueError("At least one character set must be selected"))
        ELSE Return(charset)

\* Mutant: the symbols are left out of the required sets.
M_get_required_chars(options) ==
    (IF options["uppercase"] THEN <<UPPERCASE>> ELSE <<>>)
    \o (IF options["lowercase"] THEN <<LOWERCASE>> ELSE <<>>)
    \o (IF options["numbers"] THEN <<DIGITS>> ELSE <<>>)

get_required_chars(options) ==
    (IF options["uppercase"] THEN <<UPPERCASE>> ELSE <<>>)
    \o (IF options["lowercase"] THEN <<LOWERCASE>> ELSE <<>>)
    \o (IF options["numbers"] THEN <<DIGITS>> ELSE <<>>)
    \o (IF options["symbols"] THEN <<SYMBOLS>> ELSE <<>>)

\* Mutant: the symbols are not counted.
M_calculate_charset_size(options) ==
    (IF options["uppercase"] THEN Len(UPPERCASE) ELSE 0)
    + (IF options["lowercase"] THEN Len(LOWERCASE) ELSE 0)
    + (IF options["numbers"] THEN Len(DIGITS) ELSE 0)

calculate_charset_size(options) ==
    (IF options["uppercase"] THEN Len(UPPERCASE) ELSE 0)
    + (IF options["lowercase"] THEN Len(LOWERCASE) ELSE 0)
    + (IF options["numbers"] THEN Len(DIGITS) ELSE 0)
    + (IF options["symbols"] THEN Len(SYMBOLS) ELSE 0)

\* Mutant: any(options.keys()), true of every options value.
M_validate_options(options) == \E k \in DOMAIN options : k # ""

\* any(options.values())
validate_options(options) == \E k \in DOMAIN options : options[k]

----------------------------------------------------------------------------
(* src/generator/entropy_calculator.py *)
(* A float is modelled in fixed point, as an integer number of millionths. *)

Micro == 1000 * 1000

\* round(10^6 * log2(n)) for n in 1..100
Log2Table ==
    <<0, 1000000, 1584963, 2000000, 2321928, 2584963, 2807355, 3000000,
      3169925, 3321928, 3459432, 3584963, 3700440, 3807355, 3906891, 4000000,
      4087463, 4169925, 4247928, 4321928, 4392317, 4459432, 4523562, 4584963,
      4643856, 4700440, 4754888, 4807355, 4857981, 4906891, 4954196, 5000000,
      5044394, 5087463, 5129283, 5169925, 5209453, 5247928, 5285402, 5321928,
      5357552, 5392317, 5426265, 5459432, 5491853, 5523562, 5554589, 5584963,
      5614710, 5643856, 5672425, 5700440, 5727920, 5754888, 5781360, 5807355,
      5832890, 5857981, 5882643, 5906891, 5930737, 5954196, 5977280, 6000000,
      6022368, 6044394, 6066089, 6087463, 6108524, 6129283, 6149747, 6169925,
      6189825, 6209453, 6228819, 6247928, 6266787, 6285402, 6303781, 6321928,
      6339850, 6357552, 6375039, 6392317, 6409391, 6426265, 6442943, 6459432,
      6475733, 6491853, 6507795, 6523562, 6539159, 6554589, 6569856, 6584963,
      6599913, 6614710, 6629357, 6643856>>

\* round(10^6 * log2(n)) for the larger numbers the program takes the
\* logarithm of: the time units of the crack-time bands and twice the
\* brute-force rate.
Log2Large ==
    (1000 :> 9965784) @@ (3600 :> 11813781) @@ (86400 :> 16398744)
    @@ (2592000 :> 21305634) @@ (31536000 :> 24910496)
    @@ (2000000000 :> 30897353)

\* math.log2(n), in millionths
math_log2(n) == IF n \in DOMAIN Log2Table THEN Log2Table[n] ELSE Log2Large[n]

\* calculate_entropy without the test length <= 0.
M_EntropyCalculator_calculate_entropy(length, charset_size) ==
    IF charset_size <= 0 THEN 0
    ELSE length * math_log2(charset_size)

\* EntropyCalculator.calculate_entropy(length, charset_size), in millionths of a bit
EntropyCalculator_calculate_entropy(length, charset_size) ==
    IF charset_size <= 0 \/ length <= 0 THEN 0
    ELSE length * math_log2(charset_size)

entropy_from_options(length, options) ==
    LET charset_size ==
            (IF options["uppercase"] THEN 26 ELSE 0)
            + (IF options["lowercase"] THEN 26 ELSE 0)
            + (IF options["numbers"] THEN 10 ELSE 0)
            + (IF options["symbols"] THEN 32 ELSE 0)
    IN  Return(EntropyCalculator_calculate_entropy(length, charset_size))

----------------------------------------------------------------------------
(* src/generator/password_generator.py *)

\* for char_set in char_sets: password_chars.append(secure_random_choice(char_set))
\* picks[k] is the CSPRNG's value for the k-th choice. The first exception of
\* secure_random_choice ends the loop and propagates.
append_choices(password_chars, char_sets, picks) ==
    LET c == [k \in 1..Len(char_sets) |->
                 secure_random_choice(char_sets[k], picks[k])]
        failed == {k \in 1..Len(char_sets) : c[k].kind = "raise"}
    IN  IF failed # {}
        THEN c[CHOOSE k \in failed : \A m \in failed : k <= m]
        ELSE Return(password_chars \o [k \in 1..Len(char_sets) |-> c[k].value])

\* Mutant: one position too few is filled.
M_remaining_positions(length, password_chars) == length - Len(password_chars) - 1

\* remaining = length - len(password_chars)
remaining_positions(length, password_chars) == length - Len(password_chars)

\* Mutant: the required-count check is made first, before the range check
\* and the options check.
M_generate(length, options, rnd) ==
    LET required_charsets == get_required_chars(options)
    IN  IF Len(required_charsets) > length
        THEN Raise(InvalidLengthError(length, Len(required_charsets),
                                      MAX_PASSWORD_LENGTH))
        ELSE IF length < MIN_PASSWORD_LENGTH \/ length > MAX_PASSWORD_LENGTH
        THEN Raise(InvalidLengthError(length, MIN_PASSWORD_LENGTH,
                                      MAX_PASSWORD_LENGTH))
        ELSE IF ~validate_options(options)
        THEN Raise(InvalidCharsetError)
        ELSE
        LET charset == build_charset(options)
            nreq == Len(required_charsets)
            req == append_choices(<<>>, required_charsets,
                                  SubSeq(rnd.choice, 1, nreq))
            remaining == remaining_positions(length, req.value)
            filled == append_choices(req.value,
                                     [k \in 1..remaining |-> charset.value],
                                     SubSeq(rnd.choice, nreq + 1, length))
        IN  Return(secure_shuffle(filled.value, rnd.randbelow).result)

\* rnd.choice: the values drawn by the secure_random_choice calls, in call order;
\* rnd.randbelow: the values drawn by the shuffle, by loop index.
generate(length, options, rnd) ==
    IF length < MIN_PASSWORD_LENGTH \/ length > MAX_PASSWORD_LENGTH
    THEN Raise(InvalidLengthError(length, MIN_PASSWORD_LENGTH, MAX_PASSWORD_LENGTH))
    ELSE IF ~validate_options(options)
    THEN Raise(InvalidCharsetError)
    ELSE
    LET charset == build_charset(options)
        required_charsets == get_required_chars(options)
    IN  IF charset.kind = "raise" THEN charset
        ELSE IF Len(required_charsets) > length
        THEN Raise(InvalidLengthError(length, Len(required_charsets),
                                      MAX_PASSWORD_LENGTH))
        ELSE
        LET nreq == Len(required_charsets)
            req == append_choices(<<>>, required_charsets,
                                  SubSeq(rnd.choice, 1, nreq))
        IN  IF req.kind = "raise" THEN req
            ELSE
            LET remaining == remaining_positions(length, req.value)
                filled == append_choices(req.value,
                                         [k \in 1..remaining |-> charset.value],
                                         SubSeq(rnd.choice, nreq + 1, length))
            IN  IF filled.kind = "raise" THEN filled
                ELSE Return(secure_shuffle(filled.value, rnd.randbelow).result)

\* The statements of generate before the first draw: the exception raised,
\* or the charset and the required sets.
generate_checks(length, options) ==
    IF length < MIN_PASSWORD_LENGTH \/ length > MAX_PASSWORD_LENGTH
    THEN Raise(InvalidLengthError(length, MIN_PASSWORD_LENGTH, MAX_PASSWORD_LENGTH))
    ELSE IF ~validate_options(options)
    THEN Raise(InvalidCharsetError)
    ELSE IF build_charset(options).kind = "raise" THEN build_charset(options)
    ELSE IF Len(get_required_chars(options)) > length
    THEN Raise(InvalidLengthError(length, Len(get_required_chars(options)),
                                  MAX_PASSWORD_LENGTH))
    ELSE Return([charset |-> build_charset(options).value,
                 required_charsets |-> get_required_chars(options)])

\* The second loop of generate: the remaining positions filled from charset.
fill_remaining(length, charset, choice, req) ==
    IF req.kind = "raise" THEN req
    ELSE append_choices(req.value,
                        [k \in 1..remaining_positions(length, req.value) |->
                            charset],
                        SubSeq(choice, Len(req.value) + 1, length))

\* The two loops of generate that choose the characters, before the shuffle.
choose_characters(length, sets, choice) ==
    fill_remaining(length, sets.charset, choice,
                   append_choices(<<>>, sets.required_charsets,
                                  SubSeq(choice, 1, Len(sets.required_charsets))))

\* Mutant: an exception of generate ends the loop and the passwords made
\* before it are returned.
M_generate_multiple(count, length, options, rnds) ==
    LET g == [k \in 1..count |-> generate(length, options, rnds[k])]
        failed == {k \in 1..count : g[k].kind = "raise"}
        made == IF failed = {} THEN count
                ELSE (CHOOSE k \in failed : \A m \in failed : k <= m) - 1
    IN  Return([k \in 1..made |-> g[k].value])

\* [self.generate(length, options) for _ in range(count)]: rnds[k] holds the
\* draws of the k-th call. The first exception of generate ends the
\* comprehension and propagates; the list built so far is dropped with it.
generate_multiple(count, length, options, rnds) ==
    LET g == [k \in 1..count |-> generate(length, options, rnds[k])]
        failed == {k \in 1..count : g[k].kind = "raise"}
    IN  IF failed # {}
        THEN g[CHOOSE k \in failed : \A m \in failed : k <= m]
        ELSE Return([k \in 1..count |-> g[k].value])

\* PasswordGenerator(): a CharsetBuilder and an EntropyCalculator, objects
\* without fields.
PasswordGenerator_init == [charset_builder |-> <<>>, entropy_calc |-> <<>>]

\* PasswordGenerator.calculate_entropy(length, options)
PasswordGenerator_calculate_entropy(length, options) ==
    entropy_from_options(length, options)

----------------------------------------------------------------------------
(* Built-ins of Python the analyzer and the validator apply to a password. *)
(* The characters modelled are the code points 0..255 (ASCII and Latin-1)  *)
(* and 1632..1641 (the Arabic-Indic digits).                               *)

\* c.isupper()
str_isupper(c) == c \in 65..90 \/ c \in 192..214 \/ c \in 216..222

\* c.islower()
str_islower(c) ==
    \/ c \in 97..122
    \/ c \in {170, 181, 186}
    \/ c \in 223..246
    \/ c \in 248..255

\* c.isdigit()
str_isdigit(c) == c \in 48..57 \/ c \in {178, 179, 185} \/ c \in 1632..1641

\* c.isalnum()
str_isalnum(c) ==
    \/ str_isupper(c)
    \/ str_islower(c)
    \/ str_isdigit(c)
    \/ c \in 188..190

\* password.lower()
str_lower(s) == [i \in DOMAIN s |-> IF str_isupper(s[i]) THEN s[i] + 32 ELSE s[i]]

\* pattern in password_lower
str_in(pattern, s) ==
    \E i \in 0..(Len(s) - Len(pattern)) :
        \A j \in 1..Len(pattern) : s[i + j] = pattern[j]

\* pattern[::-1]
reversed(s) == [i \in DOMAIN s |-> s[Len(s) + 1 - i]]

\* str(n) for n >= 0
RECURSIVE str_int(_)
str_int(n) ==
    IF n < 10 THEN <<48 + n>>
    ELSE Append(str_int(n \div 10), 48 + (n % 10))

\* The character classes of the regular expressions.
\* [A-Z]
re_upper(c) == c \in 65..90

\* [a-z]
re_lower(c) == c \in 97..122

\* \d, on str patterns: the decimal digits of Unicode
re_digit(c) == c \in 48..57 \/ c \in 1632..1641

\* [^A-Za-z]
M_re_symbol(c) == ~(c \in 65..90 \/ c \in 97..122)

\* [^A-Za-z0-9]
re_symbol(c) == ~(c \in 65..90 \/ c \in 97..122 \/ c \in 48..57)

\* . (every character but the newline)
re_dot(c) == c # 10

\* [/-]
re_date_separator(c) == c \in {45, 47}

\* bool(re.search(charclass, password))
re_search_class(class(_), password) == \E i \in DOMAIN password : class(password[i])

----------------------------------------------------------------------------
(* src/core/constants.py: the pattern lists, as sequences of strings *)

\* Common weak password patterns
COMMON_PATTERNS ==
    <<
      <<112, 97, 115, 115, 119, 111, 114, 100>>,  \* password
      <<112, 97, 115, 115>>,  \* pass
      <<49, 50, 51, 52, 53, 54>>,  \* 123456
      <<49, 50, 51, 52, 53, 54, 55, 56>>,  \* 12345678
      <<113, 119, 101, 114, 116, 121>>,  \* qwerty
      <<97, 98, 99, 49, 50, 51>>,  \* abc123
      <<109, 111, 110, 107, 101, 121>>,  \* monkey
      <<108, 101, 116, 109, 101, 105, 110>>,  \* letmein
      <<116, 114, 117, 115, 116, 110, 111, 49>>,  \* trustno1
      <<100, 114, 97, 103, 111, 110>>,  \* dragon
      <<98, 97, 115, 101, 98, 97, 108, 108>>,  \* baseball
      <<105, 108, 111, 118, 101, 121, 111, 117>>,  \* iloveyou
      <<109, 97, 115, 116, 101, 114>>,  \* master
      <<115, 117, 110, 115, 104, 105, 110, 101>>,  \* sunshine
      <<97, 115, 104, 108, 101, 121>>,  \* ashley
      <<98, 97, 105, 108, 101, 121>>,  \* bailey
      <<115, 104, 97, 100, 111, 119>>,  \* shadow
      <<115, 117, 112, 101, 114, 109, 97, 110>>,  \* superman
      <<113, 97, 122, 119, 115, 120>>,  \* qazwsx
      <<109, 105, 99, 104, 97, 101, 108>>,  \* michael
      <<102, 111, 111, 116, 98, 97, 108, 108>>,  \* football
      <<119, 101, 108, 99, 111, 109, 101>>,  \* welcome
      <<106, 101, 115, 117, 115>>,  \* jesus
      <<110, 105, 110, 106, 97>>,  \* ninja
      <<109, 117, 115, 116, 97, 110, 103>>,  \* mustang
      <<97, 100, 109, 105, 110>>,  \* admin
      <<108, 111, 103, 105, 110>>,  \* login
      <<112, 97, 115, 115, 119, 48, 114, 100>>,  \* passw0rd
      <<112, 64, 115, 115, 119, 111, 114, 100>>,  \* p@ssword
      <<116, 101, 115, 116>>,  \* test
      <<117, 115, 101, 114>>  \* user
    >>

\* Sequential character patterns
SEQUENTIAL_PATTERNS ==
    <<
      <<97, 98, 99>>,  \* abc
      <<98, 99, 100>>,  \* bcd
      <<99, 100, 101>>,  \* cde
      <<100, 101, 102>>,  \* def
      <<101, 102, 103>>,  \* efg
      <<102, 103, 104>>,  \* fgh
      <<103, 104, 105>>,  \* ghi
      <<104, 105, 106>>,  \* hij
      <<105, 106, 107>>,  \* ijk
      <<106, 107, 108>>,  \* jkl
      <<107, 108, 109>>,  \* klm
      <<108, 109, 110>>,  \* lmn
      <<109, 110, 111>>,  \* mno
      <<110, 111, 112>>,  \* nop
      <<111, 112, 113>>,  \* opq
      <<112, 113, 114>>,  \* pqr
      <<113, 114, 115>>,  \* qrs
      <<114, 115, 116>>,  \* rst
      <<115, 116, 117>>,  \* stu
      <<116, 117, 118>>,  \* tuv
      <<117, 118, 119>>,  \* uvw
      <<118, 119, 120>>,  \* vwx
      <<119, 120, 121>>,  \* wxy
      <<120, 121, 122>>,  \* xyz
      <<49, 50, 51>>,  \* 123
      <<50, 51, 52>>,  \* 234
      <<51, 52, 53>>,  \* 345
      <<52, 53, 54>>,  \* 456
      <<53, 54, 55>>,  \* 567
      <<54, 55, 56>>,  \* 678
      <<55, 56, 57>>,  \* 789
      <<113, 119, 101>>,  \* qwe
      <<119, 101, 114>>,  \* wer
      <<101, 114, 116>>,  \* ert
      <<114, 116, 121>>,  \* rty
      <<116, 121, 117>>,  \* tyu
      <<121, 117, 105>>,  \* yui
      <<117, 105, 111>>,  \* uio
      <<105, 111, 112>>,  \* iop
      <<97, 115, 100>>,  \* asd
      <<115, 100, 102>>,  \* sdf
      <<100, 102, 103>>,  \* dfg
      <<102, 103, 104>>,  \* fgh
      <<103, 104, 106>>,  \* ghj
      <<104, 106, 107>>,  \* hjk
      <<106, 107, 108>>,  \* jkl
      <<122, 120, 99>>,  \* zxc
      <<120, 99, 118>>,  \* xcv
      <<99, 118, 98>>,  \* cvb
      <<118, 98, 110>>,  \* vbn
      <<98, 110, 109>>  \* bnm
    >>

\* Keyboard patterns
KEYBOARD_PATTERNS ==
    <<
      <<113, 119, 101, 114, 116, 121>>,  \* qwerty
      <<97, 115, 100, 102, 103, 104>>,  \* asdfgh
      <<122, 120, 99, 118, 98, 110>>,  \* zxcvbn
      <<49, 113, 97, 122, 50, 119, 115, 120>>,  \* 1qaz2wsx
      <<113, 97, 122, 119, 115, 120>>,  \* qazwsx
      <<113, 119, 101, 114, 116, 121, 117, 105, 111, 112>>,  \* qwertyuiop
      <<97, 115, 100, 102, 103, 104, 106, 107, 108>>,  \* asdfghjkl
      <<122, 120, 99, 118, 98, 110, 109>>  \* zxcvbnm
    >>

----------------------------------------------------------------------------
(* src/analyzer/pattern_detector.py *)

\* PatternDetector()
PatternDetector_init ==
    [common_patterns |-> COMMON_PATTERNS,
     sequential_patterns |-> SEQUENTIAL_PATTERNS,
     keyboard_patterns |-> KEYBOARD_PATTERNS]

has_common_patterns(self, password) ==
    LET password_lower == str_lower(password)
    IN  \E k \in DOMAIN self.common_patterns :
            str_in(self.common_patterns[k], password_lower)

has_sequential_patterns(self, password) ==
    LET password_lower == str_lower(password)
    IN  \E k \in DOMAIN self.sequential_patterns :
            \/ str_in(self.sequential_patterns[k], password_lower)
            \/ str_in(reversed(self.sequential_patterns[k]), password_lower)

has_keyboard_patterns(self, password) ==
    LET password_lower == str_lower(password)
    IN  \E k \in DOMAIN self.keyboard_patterns :
            str_in(self.keyboard_patterns[k], password_lower)

\* re.search(r'(.)\1{min_repeat-1,}', password): a character other than the
\* newline that stands min_repeat times in a row.
has_repeated_characters(password, min_repeat) ==
    \E i \in 1..(Len(password) - min_repeat + 1) :
        /\ re_dot(password[i])
        /\ \A d \in 1..(min_repeat - 1) : password[i + d] = password[i]

\* re.search(DATE_PATTERN, password), DATE_PATTERN = \d{2,4}[/-]\d{1,2}[/-]\d{1,2}:
\* two digits, a separator at i, one or two digits, a separator, a digit.
has_date_pattern(password) ==
    \E i \in 3..Len(password), m \in 1..2 :
        /\ i + m + 2 <= Len(password)
        /\ re_digit(password[i - 2]) /\ re_digit(password[i - 1])
        /\ re_date_separator(password[i])
        /\ \A d \in 1..m : re_digit(password[i + d])
        /\ re_date_separator(password[i + m + 1])
        /\ re_digit(password[i + m + 2])

\* re.search(r'\d+$', password): $ matches at the end of the string and also
\* just before a newline that ends the string.
has_number_suffix(password) ==
    LET n == Len(password)
    IN  \/ n >= 1 /\ re_digit(password[n])
        \/ n >= 2 /\ password[n] = 10 /\ re_digit(password[n - 1])

detect_all_patterns(self, password) ==
    [has_common_patterns |-> has_common_patterns(self, password),
     has_sequential |-> has_sequential_patterns(self, password),
     has_keyboard_patterns |-> has_keyboard_patterns(self, password),
     has_repeated_chars |-> has_repeated_characters(password, 3),
     has_date_pattern |-> has_date_pattern(password),
     has_number_only_suffix |-> has_number_suffix(password)]

\* The names of the detected patterns, in the order of detect_all_patterns.
get_detected_patterns(self, password) ==
    LET results == detect_all_patterns(self, password)
        name(flag, text) == IF flag THEN <<text>> ELSE <<>>
    IN  name(results.has_common_patterns, "Common weak patterns")
        \o name(results.has_sequential, "Sequential characters")
        \o name(results.has_keyboard_patterns, "Keyboard patterns")
        \o name(results.has_repeated_chars, "Repeated characters")
        \o name(results.has_date_pattern, "Date patterns")
        \o name(results.has_number_only_suffix, "Numbers-only suffix")

----------------------------------------------------------------------------
(* src/analyzer/strength_scorer.py *)

SCORE_WEAK_THRESHOLD == 40

SCORE_MEDIUM_THRESHOLD == 60

SCORE_STRONG_THRESHOLD == 80

\* StrengthScorer(): an object without fields
StrengthScorer_init == [class |-> "StrengthScorer"]

\* analysis.get(key, default)
dict_get(analysis, key, default) ==
    IF key \in DOMAIN analysis THEN analysis[key] ELSE default

\* Mutant: twelve characters earn the 20 points of ten.
M__score_length(length) ==
    IF length >= 20 THEN 30
    ELSE IF length >= 16 THEN 28
    ELSE IF length >= 12 THEN 20
    ELSE IF length >= 10 THEN 20
    ELSE IF length >= 8 THEN 15
    ELSE length * 2

_score_length(length) ==
    IF length >= 20 THEN 30
    ELSE IF length >= 16 THEN 28
    ELSE IF length >= 12 THEN 24
    ELSE IF length >= 10 THEN 20
    ELSE IF length >= 8 THEN 15
    ELSE length * 2

\* int(diversity_score * 25)
_score_diversity(analysis) ==
    (dict_get(analysis, "diversity_score", 0) * 25) \div Micro

_score_entropy(entropy) ==
    IF entropy >= 100 * Micro THEN 30
    ELSE IF entropy >= 80 * Micro THEN 28
    ELSE IF entropy >= 60 * Micro THEN 24
    ELSE IF entropy >= 40 * Micro THEN 18
    ELSE entropy \div (2 * Micro)

\* _score_patterns without the penalty for sequential characters.
M_score_patterns(analysis) ==
    (IF ~dict_get(analysis, "has_common_patterns", FALSE) THEN 10 ELSE 0)
    + (IF ~dict_get(analysis, "has_sequential", FALSE) THEN 5 ELSE 0)
    - (IF dict_get(analysis, "has_common_patterns", FALSE) THEN 25 ELSE 0)
    - (IF dict_get(analysis, "has_keyboard_patterns", FALSE) THEN 10 ELSE 0)
    - (IF dict_get(analysis, "has_repeated_chars", FALSE) THEN 10 ELSE 0)
    - (IF dict_get(analysis, "has_date_pattern", FALSE) THEN 5 ELSE 0)

_score_patterns(analysis) ==
    (IF ~dict_get(analysis, "has_common_patterns", FALSE) THEN 10 ELSE 0)
    + (IF ~dict_get(analysis, "has_sequential", FALSE) THEN 5 ELSE 0)
    - (IF dict_get(analysis, "has_common_patterns", FALSE) THEN 25 ELSE 0)
    - (IF dict_get(analysis, "has_sequential", FALSE) THEN 15 ELSE 0)
    - (IF dict_get(analysis, "has_keyboard_patterns", FALSE) THEN 10 ELSE 0)
    - (IF dict_get(analysis, "has_repeated_chars", FALSE) THEN 10 ELSE 0)
    - (IF dict_get(analysis, "has_date_pattern", FALSE) THEN 5 ELSE 0)

calculate_score(password, analysis) ==
    LET score == _score_length(analysis.length)
                 + _score_diversity(analysis)
                 + _score_entropy(analysis.entropy)
                 + _score_patterns(analysis)
        capped == IF score > 100 THEN 100 ELSE score
    IN  IF capped < 0 THEN 0 ELSE capped

\* get_strength_level with "Strong" starting at SCORE_WEAK_THRESHOLD.
M_get_strength_level(score) ==
    IF score >= SCORE_STRONG_THRESHOLD THEN "Very Strong"
    ELSE IF score >= SCORE_WEAK_THRESHOLD THEN "Strong"
    ELSE "Weak"

get_strength_level(score) ==
    IF score >= SCORE_STRONG_THRESHOLD THEN "Very Strong"
    ELSE IF score >= SCORE_MEDIUM_THRESHOLD THEN "Strong"
    ELSE IF score >= SCORE_WEAK_THRESHOLD THEN "Medium"
    ELSE "Weak"

----------------------------------------------------------------------------
(* src/analyzer/crack_time_estimator.py *)
(* The estimate is a string the estimator itself searches for words, so it *)
(* is a sequence of code points.  2 ** entropy exceeds every integer width *)
(* of the model: the time is carried as its base-2 logarithm, in           *)
(* millionths, and a comparison seconds < t becomes log2(seconds) < log2 t.*)

BRUTE_FORCE_RATE == 1000 * 1000 * 1000

OverflowError == [type |-> "OverflowError"]

\* CrackTimeEstimator(attempts_per_second)
CrackTimeEstimator_init(attempts_per_second) ==
    [attempts_per_second |-> attempts_per_second]

\* int(seconds / unit) for 1 <= seconds / unit < 100, from the logarithms
int_quotient(log2_seconds, log2_unit) ==
    CHOOSE n \in 1..100 :
        /\ math_log2(n) <= log2_seconds - log2_unit
        /\ n = 100 \/ math_log2(n + 1) > log2_seconds - log2_unit

\* f'{n} {word}{"s" if n != 1 else ""}'
plural(n, word) ==
    str_int(n) \o <<32>> \o word \o (IF n # 1 THEN <<115>> ELSE <<>>)

_format_time(log2_seconds) ==
    LET minute == math_log2(60)
        hour == math_log2(3600)
        day == math_log2(86400)
        month == math_log2(2592000)
        year == math_log2(31536000)
    IN  IF log2_seconds < 0 - math_log2(1000)
            THEN <<73, 110, 115, 116, 97, 110, 116>>  \* Instant
        ELSE IF log2_seconds < 0
            THEN <<76, 101, 115, 115, 32, 116, 104, 97, 110, 32, 49, 32, 115, 101, 99, 111, 110, 100>>
                 \* Less than 1 second
        ELSE IF log2_seconds < minute
            THEN str_int(int_quotient(log2_seconds, 0))
                 \o <<32, 115, 101, 99, 111, 110, 100, 115>>  \* " seconds"
        ELSE IF log2_seconds < hour
            THEN plural(int_quotient(log2_seconds, minute),
                        <<109, 105, 110, 117, 116, 101>>)  \* minute
        ELSE IF log2_seconds < day
            THEN plural(int_quotient(log2_seconds, hour),
                        <<104, 111, 117, 114>>)  \* hour
        ELSE IF log2_seconds < month
            THEN plural(int_quotient(log2_seconds, day),
                        <<100, 97, 121>>)  \* day
        ELSE IF log2_seconds < year
            THEN plural(int_quotient(log2_seconds, month),
                        <<109, 111, 110, 116, 104>>)  \* month
        ELSE IF log2_seconds < year + math_log2(100)
            THEN plural(int_quotient(log2_seconds, year),
                        <<121, 101, 97, 114>>)  \* year
        ELSE IF log2_seconds < year + math_log2(1000)
            THEN <<67, 101, 110, 116, 117, 114, 105, 101, 115>>  \* Centuries
        ELSE <<77, 105, 108, 108, 101, 110, 110, 105, 97, 43>>  \* Millennia+

\* 2 ** entropy is a float: it raises OverflowError from 1024 bits on. Where
\* seconds is a whole multiple of a unit the float lands just above it
\* (2 ** (10 * log2(10)) / 2e9 = 5.0000000000000036); the 2 millionths added
\* here put the rounded logarithms on the same side.
estimate_from_entropy(self, entropy) ==
    IF entropy <= 0 THEN Return(<<73, 110, 115, 116, 97, 110, 116>>)
    ELSE IF entropy >= 1024 * Micro THEN Raise(OverflowError)
    ELSE Return(_format_time(
             entropy - math_log2(2 * self.attempts_per_second) + 2))

\* The chain of tests with 'hour' tested next to 'day' instead of 'minute'.
M_security_level_of(time_estimate) ==
    IF str_in(<<73, 110, 115, 116, 97, 110, 116>>, time_estimate)
       \/ str_in(<<115, 101, 99, 111, 110, 100>>, time_estimate)
        THEN "Very Weak - Crackable instantly"
    ELSE IF str_in(<<109, 105, 110, 117, 116, 101>>, time_estimate)
        THEN "Weak - Crackable in hours"
    ELSE IF str_in(<<104, 111, 117, 114>>, time_estimate)
            \/ str_in(<<100, 97, 121>>, time_estimate)
        THEN "Moderate - Crackable in days"
    ELSE IF str_in(<<109, 111, 110, 116, 104>>, time_estimate)
        THEN "Good - Crackable in months"
    ELSE IF str_in(<<121, 101, 97, 114>>, time_estimate)
            /\ ~str_in(<<67, 101, 110, 116, 117, 114>>, time_estimate)
        THEN "Strong - Crackable in years"
    ELSE "Very Strong - Crackable in centuries+"

\* The chain of substring tests of get_security_level on the estimate.
security_level_of(time_estimate) ==
    IF str_in(<<73, 110, 115, 116, 97, 110, 116>>, time_estimate)  \* Instant
       \/ str_in(<<115, 101, 99, 111, 110, 100>>, time_estimate)  \* second
        THEN "Very Weak - Crackable instantly"
    ELSE IF str_in(<<109, 105, 110, 117, 116, 101>>, time_estimate)  \* minute
            \/ str_in(<<104, 111, 117, 114>>, time_estimate)  \* hour
        THEN "Weak - Crackable in hours"
    ELSE IF str_in(<<100, 97, 121>>, time_estimate)  \* day
        THEN "Moderate - Crackable in days"
    ELSE IF str_in(<<109, 111, 110, 116, 104>>, time_estimate)  \* month
        THEN "Good - Crackable in months"
    ELSE IF str_in(<<121, 101, 97, 114>>, time_estimate)  \* year
            /\ ~str_in(<<67, 101, 110, 116, 117, 114>>, time_estimate)  \* Centur
        THEN "Strong - Crackable in years"
    ELSE "Very Strong - Crackable in centuries+"

get_security_level(self, entropy) ==
    LET outcome == estimate_from_entropy(self, entropy)
    IN  IF outcome.kind = "raise" THEN outcome
        ELSE Return(security_level_of(outcome.value))

----------------------------------------------------------------------------
(* src/analyzer/password_analyzer.py *)

\* PasswordAnalyzer()
PasswordAnalyzer_init ==
    [pattern_detector |-> PatternDetector_init,
     strength_scorer |-> StrengthScorer_init,
     crack_time_estimator |-> CrackTimeEstimator_init(BRUTE_FORCE_RATE)]

_empty_analysis ==
    [strength |-> "Weak",
     score |-> 0,
     entropy |-> 0,
     length |-> 0,
     has_uppercase |-> FALSE,
     has_lowercase |-> FALSE,
     has_numbers |-> FALSE,
     has_symbols |-> FALSE,
     diversity_score |-> 0,
     crack_time |-> <<73, 110, 115, 116, 97, 110, 116>>,
     security_level |-> "Very Weak",
     recommendations |-> <<"Enter a password to analyze">>,
     detected_patterns |-> <<>>]

\* types_used / 4.0, in millionths
_calculate_diversity(analysis) ==
    LET types_used == (IF analysis.has_uppercase THEN 1 ELSE 0)
                      + (IF analysis.has_lowercase THEN 1 ELSE 0)
                      + (IF analysis.has_numbers THEN 1 ELSE 0)
                      + (IF analysis.has_symbols THEN 1 ELSE 0)
    IN  (types_used * Micro) \div 4

\* Mutant: the symbols are counted as the 33 printable non-alphanumerics.
M__calculate_entropy(password, analysis) ==
    LET charset_size == (IF analysis.has_uppercase THEN 26 ELSE 0)
                        + (IF analysis.has_lowercase THEN 26 ELSE 0)
                        + (IF analysis.has_numbers THEN 10 ELSE 0)
                        + (IF analysis.has_symbols THEN 33 ELSE 0)
    IN  IF charset_size = 0 THEN 0
        ELSE Len(password) * math_log2(charset_size)

_calculate_entropy(password, analysis) ==
    LET charset_size == (IF analysis.has_uppercase THEN 26 ELSE 0)
                        + (IF analysis.has_lowercase THEN 26 ELSE 0)
                        + (IF analysis.has_numbers THEN 10 ELSE 0)
                        + (IF analysis.has_symbols THEN 32 ELSE 0)
    IN  IF charset_size = 0 THEN 0
        ELSE Len(password) * math_log2(charset_size)

\* Mutant: the two length tests are independent ifs.
M__generate_recommendations(analysis) ==
    LET say(condition, text) == IF condition THEN <<text>> ELSE <<>>
        recommendations ==
            say(analysis.length < 8, "Increase length to at least 8 characters")
            \o say(analysis.length < 12,
                   "Consider increasing length to 12+ characters")
            \o say(~analysis.has_uppercase, "Add uppercase letters (A-Z)")
            \o say(~analysis.has_lowercase, "Add lowercase letters (a-z)")
            \o say(~analysis.has_numbers, "Add numbers (0-9)")
            \o say(~analysis.has_symbols, "Add symbols (!@#$...)")
            \o say(dict_get(analysis, "has_common_patterns", FALSE),
                   "Avoid common words and patterns")
            \o say(dict_get(analysis, "has_sequential", FALSE),
                   "Avoid sequential characters (abc, 123)")
            \o say(dict_get(analysis, "has_keyboard_patterns", FALSE),
                   "Avoid keyboard patterns (qwerty)")
            \o say(dict_get(analysis, "has_repeated_chars", FALSE),
                   "Avoid repeated characters (aaa, 111)")
            \o say(analysis.entropy < 40 * Micro,
                   "Significantly increase password complexity")
    IN  IF recommendations = <<>>
            THEN <<"Password meets security best practices!">>
        ELSE recommendations

_generate_recommendations(analysis) ==
    LET say(condition, text) == IF condition THEN <<text>> ELSE <<>>
        recommendations ==
            (IF analysis.length < 8
                THEN <<"Increase length to at least 8 characters">>
             ELSE IF analysis.length < 12
                THEN <<"Consider increasing length to 12+ characters">>
             ELSE <<>>)
            \o say(~analysis.has_uppercase, "Add uppercase letters (A-Z)")
            \o say(~analysis.has_lowercase, "Add lowercase letters (a-z)")
            \o say(~analysis.has_numbers, "Add numbers (0-9)")
            \o say(~analysis.has_symbols, "Add symbols (!@#$...)")
            \o say(dict_get(analysis, "has_common_patterns", FALSE),
                   "Avoid common words and patterns")
            \o say(dict_get(analysis, "has_sequential", FALSE),
                   "Avoid sequential characters (abc, 123)")
            \o say(dict_get(analysis, "has_keyboard_patterns", FALSE),
                   "Avoid keyboard patterns (qwerty)")
            \o say(dict_get(analysis, "has_repeated_chars", FALSE),
                   "Avoid repeated characters (aaa, 111)")
            \o say(analysis.entropy < 40 * Micro,
                   "Significantly increase password complexity")
    IN  IF recommendations = <<>>
            THEN <<"Password meets security best practices!">>
        ELSE recommendations

\* The statements of analyze, each applied to the dict built so far.
\* analysis = {'length': ..., 'has_uppercase': ..., ...}
character_types(password) ==
    [length |-> Len(password),
     has_uppercase |-> \E i \in DOMAIN password : re_upper(password[i]),
     has_lowercase |-> \E i \in DOMAIN password : re_lower(password[i]),
     has_numbers |-> \E i \in DOMAIN password : re_digit(password[i]),
     has_symbols |-> \E i \in DOMAIN password : re_symbol(password[i])]

\* analysis.update(patterns)
with_patterns(self, password, analysis) ==
    detect_all_patterns(self.pattern_detector, password) @@ analysis

\* analysis['diversity_score'] = self._calculate_diversity(analysis)
with_diversity(analysis) ==
    [diversity_score |-> _calculate_diversity(analysis)] @@ analysis

\* analysis['entropy'] = self._calculate_entropy(password, analysis)
with_entropy(password, analysis) ==
    [entropy |-> _calculate_entropy(password, analysis)] @@ analysis

\* analysis['score'] = self.strength_scorer.calculate_score(password, analysis)
with_score(password, analysis) ==
    [score |-> calculate_score(password, analysis)] @@ analysis

\* analysis['strength'] = self.strength_scorer.get_strength_level(analysis['score'])
with_strength(analysis) ==
    [strength |-> get_strength_level(analysis.score)] @@ analysis

\* analysis['recommendations'] = self._generate_recommendations(analysis)
with_recommendations(analysis) ==
    [recommendations |-> _generate_recommendations(analysis)] @@ analysis

\* analysis['detected_patterns'] = self.pattern_detector.get_detected_patterns(password)
with_detected_patterns(self, password, analysis) ==
    [detected_patterns |->
         get_detected_patterns(self.pattern_detector, password)] @@ analysis

\* analysis['crack_time'] and analysis['security_level'], either of which
\* ends the call when the estimator raises, and the statements after them.
with_estimates(self, password, analysis) ==
    LET crack_time ==
            estimate_from_entropy(self.crack_time_estimator, analysis.entropy)
        security_level ==
            get_security_level(self.crack_time_estimator, analysis.entropy)
    IN  IF crack_time.kind = "raise" THEN crack_time
        ELSE IF security_level.kind = "raise" THEN security_level
        ELSE Return(with_detected_patterns(self, password,
                 with_recommendations(
                     [crack_time |-> crack_time.value,
                      security_level |-> security_level.value] @@ analysis)))

\* analyze without its first statement: the empty string goes through the
\* detector, the scorer and the estimator like any other.
M_analyze(self, password) ==
    with_estimates(self, password,
        with_strength(with_score(password,
            with_entropy(password,
                with_diversity(
                    with_patterns(self, password,
                                  character_types(password)))))))

\* analyzer.analyze(password): the report, or the exception of the estimator
analyze(self, password) ==
    IF password = <<>> THEN Return(_empty_analysis)
    ELSE with_estimates(self, password,
             with_strength(with_score(password,
                 with_entropy(password,
                     with_diversity(
                         with_patterns(self, password,
                                       character_types(password)))))))

----------------------------------------------------------------------------
(* src/validator/policy_rules.py and src/validator/policy_validator.py *)
(* An Optional value is the empty sequence (None) or a one-element one.    *)

DEFAULT_POLICY_MIN_LENGTH == 8

DEFAULT_POLICY_MAX_LENGTH == 128

\* PasswordPolicy(): every argument at its default
PasswordPolicy_init ==
    [min_length |-> DEFAULT_POLICY_MIN_LENGTH,
     max_length |-> DEFAULT_POLICY_MAX_LENGTH,
     require_uppercase |-> TRUE,
     require_lowercase |-> TRUE,
     require_numbers |-> TRUE,
     require_symbols |-> FALSE,
     min_entropy |-> <<>>,
     forbid_common_patterns |-> TRUE,
     forbid_sequential |-> TRUE]

\* PolicyValidator(policy)
PolicyValidator_init(policy) ==
    [policy |-> policy, analyzer |-> PasswordAnalyzer_init]

\* A message and the values formatted into it.
Message(text, args) == [text |-> text, args |-> args]

\* f'{x:.1f}', in tenths
format_1f(x) == (x + 50000) \div 100000

\* The errors of validate: the checks on the password itself, then those on
\* the analysis.
validation_errors(policy, password, analysis) ==
    LET say(condition, message) == IF condition THEN <<message>> ELSE <<>>
        min_entropy == IF policy.min_entropy = <<>> THEN 0
                       ELSE policy.min_entropy[1]
    IN  say(Len(password) < policy.min_length,
            Message("Password must be at least {} characters",
                    <<policy.min_length>>))
        \o say(Len(password) > policy.max_length,
               Message("Password must not exceed {} characters",
                       <<policy.max_length>>))
        \o say(policy.require_uppercase
               /\ ~\E i \in DOMAIN password : str_isupper(password[i]),
               Message("Password must contain at least one uppercase letter",
                       <<>>))
        \o say(policy.require_lowercase
               /\ ~\E i \in DOMAIN password : str_islower(password[i]),
               Message("Password must contain at least one lowercase letter",
                       <<>>))
        \o say(policy.require_numbers
               /\ ~\E i \in DOMAIN password : str_isdigit(password[i]),
               Message("Password must contain at least one number", <<>>))
        \o say(policy.require_symbols
               /\ ~\E i \in DOMAIN password : ~str_isalnum(password[i]),
               Message("Password must contain at least one symbol", <<>>))
        \o say(policy.forbid_common_patterns
               /\ dict_get(analysis, "has_common_patterns", FALSE),
               Message("Password contains common weak patterns", <<>>))
        \o say(policy.forbid_sequential
               /\ dict_get(analysis, "has_sequential", FALSE),
               Message("Password contains sequential characters", <<>>))
        \o say(min_entropy # 0 /\ analysis.entropy < min_entropy,
               Message("Password entropy too low ({} < {} bits)",
                       <<format_1f(analysis.entropy), min_entropy>>))

\* validation_warnings without the test "if not errors".
M_validation_warnings(policy, errors, analysis) ==
    LET say(condition, message) == IF condition THEN <<message>> ELSE <<>>
    IN  say(analysis.score < 60,
            Message("Password is weak. Consider making it stronger.", <<>>))
        \o say(~policy.require_symbols /\ ~analysis.has_symbols,
               Message("Adding symbols would significantly improve strength",
                       <<>>))

\* The warnings of validate, given only when there is no error.
validation_warnings(policy, errors, analysis) ==
    LET say(condition, message) == IF condition THEN <<message>> ELSE <<>>
    IN  IF errors # <<>> THEN <<>>
        ELSE say(analysis.score < 60,
                 Message("Password is weak. Consider making it stronger.",
                         <<>>))
             \o say(~policy.require_symbols /\ ~analysis.has_symbols,
                    Message("Adding symbols would significantly improve strength",
                            <<>>))

\* The dict validate returns.
validation_result(policy, errors, analysis) ==
    [valid |-> Len(errors) = 0,
     errors |-> errors,
     warnings |-> validation_warnings(policy, errors, analysis),
     score |-> analysis.score,
     strength |-> analysis.strength]

\* The part of validate that follows the call of analyze.
validate_analysis(policy, password, analysis) ==
    validation_result(policy, validation_errors(policy, password, analysis),
                      analysis)

\* validate once self.analyzer.analyze(password) has ended: the result, or
\* the exception of analyze
validate_outcome(policy, password, outcome) ==
    IF outcome.kind = "raise" THEN outcome
    ELSE Return(validate_analysis(policy, password, outcome.value))

\* validator.validate(password)
validate(self, password) ==
    validate_outcome(self.policy, password, analyze(self.analyzer, password))

----------------------------------------------------------------------------
(* The inputs and the draws the model enumerates *)

Options == [OptionKeys -> BOOLEAN]

Lengths == (0 - 1)..MaxGenLen \cup {MAX_PASSWORD_LENGTH, MAX_PASSWORD_LENGTH + 1}

\* DrawSamples evenly spaced values of 0..n-1 (all of them once DrawSamples >= n).
Sampled(n) == {(k * n) \div DrawSamples : k \in 0..(DrawSamples - 1)}

\* The k-th of the DrawSamples sampled values of 0..n-1.
SampleAt(n, k) == (k * n) \div DrawSamples

\* All sequences s with s[i] \in sets[i].
RECURSIVE Product(_)
Product(sets) ==
    IF sets = <<>> THEN {<<>>}
    ELSE {<<x>> \o t : x \in Head(sets), t \in Product(Tail(sets))}

\* The ranges of the draws generate makes, in call order.
ChoiceRanges(length, options) ==
    LET required == get_required_chars(options)
    IN  [k \in 1..length |->
            IF k <= Len(required) THEN Len(required[k])
            ELSE calculate_charset_size(options)]

\* A call of generate that raises draws nothing.
DrawsNothing(length, options) ==
    \/ length < MIN_PASSWORD_LENGTH
    \/ length > MAX_PASSWORD_LENGTH
    \/ ~validate_options(options)
    \/ Len(get_required_chars(options)) > length

NoDraws == [choice |-> <<>>, randbelow |-> <<>>]

\* The DrawSamples tapes that take the same sample point in every draw.
UniformDraws(length, options) ==
    IF DrawsNothing(length, options) THEN {NoDraws}
    ELSE LET ranges == ChoiceRanges(length, options)
         IN  {[choice |-> [k \in 1..length |-> SampleAt(ranges[k], s)],
               randbelow |-> [i \in 1..(length - 1) |-> SampleAt(i + 1, s)]] :
                 s \in 0..(DrawSamples - 1)}

\* The values the CSPRNG can hand to one generate call: up to MaxGenLen every
\* combination of sampled values for the characters chosen, each with the
\* DrawSamples uniform sequences for the shuffle (SecureShuffle enumerates
\* every sequence of the shuffle on its own); above MaxGenLen the uniform tapes.
GenerateDraws(length, options) ==
    IF DrawsNothing(length, options) THEN {NoDraws}
    ELSE IF length > MaxGenLen THEN UniformDraws(length, options)
    ELSE LET ranges == ChoiceRanges(length, options)
         IN  {[choice |-> c,
               randbelow |-> [i \in 1..(length - 1) |-> SampleAt(i + 1, s)]] :
                 c \in Product([k \in 1..length |-> Sampled(ranges[k])]),
                 s \in 0..(DrawSamples - 1)}

Counts == 0..MaxCount

\* The lists handed to secure_shuffle on its own, and the draws of its loop.
ShuffleValues == {UPPERCASE[1], LOWERCASE[1], DIGITS[1]}

\* A list of n different items: the first n uppercase letters.
DistinctItems(n) == [i \in 1..n |-> UPPERCASE[i]]

ShuffleInputs ==
    UNION {[1..n -> ShuffleValues] : n \in 0..MaxItems}
        \cup {DistinctItems(n) : n \in 0..MaxItems}

ShuffleDraws(n) == Product([i \in 1..(n - 1) |-> 0..i])

\* The strings handed to analyze and validate on their own. The last one,
\* "Ab1!" forty times over, carries more than 1024 bits.
Passwords ==
    {
      <<>>,  \* the empty string
      <<97>>,  \* a
      <<65, 98, 49, 33>>,  \* Ab1!
      <<112, 97, 115, 115, 119, 111, 114, 100>>,  \* password
      <<80, 97, 115, 115, 119, 111, 114, 100, 49, 50, 51>>,  \* Password123
      <<80, 97, 115, 115, 119, 111, 114, 100, 49, 50, 51, 33, 120, 75, 35,
        57, 118, 81, 50, 36, 122, 76>>,  \* Password123!xK#9vQ2$zL
      <<120, 99, 98, 97, 57>>,  \* xcba9
      <<81, 119, 101, 114, 116, 121, 33, 120>>,  \* Qwerty!x
      <<122, 97, 97, 97, 98>>,  \* zaaab
      <<49, 50, 47, 48, 53, 47, 49, 57, 57, 48>>,  \* 12/05/1990
      <<57, 57, 45, 49, 45, 55, 120>>,  \* 99-1-7x
      <<84, 114, 48, 117, 98, 52, 100, 111, 114, 38, 51>>,  \* Tr0ub4dor&3
      <<120, 49, 10>>,  \* x1\n
      <<10, 10, 10>>,  \* \n\n\n
      <<201, 116, 233, 1635>>,  \* \xc9t\xe9\u0663
      <<48, 49, 50, 51, 52, 53, 54, 55, 56, 57>>,  \* 0123456789
      <<71, 55, 35, 107, 76, 112, 50, 64, 86, 122, 57, 33, 81, 109, 52, 36, 88, 121, 56, 38>>,  \* G7#kLp2@Vz9!Qm4$Xy8&
      <<104, 84, 53, 41, 109, 75, 50, 40, 119, 81, 57, 33>>,  \* hT5)mK2(wQ9!
      <<122, 122, 122, 122, 122, 122, 122, 122, 122, 122, 122, 122, 122, 122, 122, 122>>,  \* zzzzzzzzzzzzzzzz
      <<107, 57, 122, 118, 121, 104, 119, 112, 109>>,  \* k9zvyhwpm
      <<107, 57, 122, 118, 121, 104, 119, 112, 109, 52, 106>>,  \* k9zvyhwpm4j
      <<75, 122, 57, 118, 89, 104, 87, 112>>,  \* Kz9vYhWp
      <<104, 84, 53, 41, 109, 75, 50, 40, 119, 81, 33, 57>>,  \* hT5)mK2(wQ!9
      <<104, 84, 41, 109, 75, 49, 57, 47, 53, 47, 50, 119>>,  \* hT)mK19/5/2w
      [i \in 1..160 |-> <<65, 98, 49, 33>>[((i - 1) % 4) + 1]]
    }

----------------------------------------------------------------------------
(* The calls *)

\* The worker threads of the server that call the module-level instances.
Threads == {1, 2}

\* A thread outside a call. analysis is the local variable of analyze,
\* password_chars that of generate, made the list generate_multiple builds,
\* analyzed what validate holds of its call of analyze; choice and drawn
\* record the values the CSPRNG handed to the call.
IdleThread ==
    [pc |-> "idle", call |-> NoCall, ret |-> NoRet,
     analysis |-> <<>>, analyzed |-> NoRet,
     password_chars |-> <<>>, made |-> <<>>,
     choice |-> <<>>, drawn |-> <<>>, overlapped |-> FALSE]

\* The calls a thread makes: analyze and validate of the empty string and of
\* two others, generate and generate_multiple with a length below the
\* minimum and the minimum, all four categories, and a count of 0 or 2.
ThreadPasswords ==
    {<<>>,
     <<65, 98, 49, 33>>,  \* Ab1!
     <<112, 97, 115, 115, 119, 111, 114, 100>>}  \* password

ThreadLengths == {MIN_PASSWORD_LENGTH - 1, MIN_PASSWORD_LENGTH}

ThreadOptions == {[k \in OptionKeys |-> TRUE]}

ThreadCounts == {0, 2}

ThreadCalls ==
    {[op |-> "analyze", password |-> password] : password \in ThreadPasswords}
    \cup {[op |-> "validate", password |-> password] :
              password \in ThreadPasswords}
    \cup {[op |-> "generate", length |-> length, options |-> options] :
              length \in ThreadLengths, options \in ThreadOptions}
    \cup {[op |-> "generate_multiple", count |-> count, length |-> length,
           options |-> options] :
              count \in ThreadCounts, length \in ThreadLengths,
              options \in ThreadOptions}

\* The values the CSPRNG hands to the choices of one generate in a thread:
\* the first or the last character of every set.
ThreadChoices(length, options) ==
    {[k \in 1..length |-> 0],
     [k \in 1..length |-> ChoiceRanges(length, options)[k] - 1]}

\* The values it hands to the shuffle: the lowest or the highest at every
\* index.
ThreadShuffles(n) ==
    {[i \in 1..(n - 1) |-> 0], [i \in 1..(n - 1) |-> i]}

\* Where the local variable analysis of thread t's call lives: in the frame
\* of the call, one for each call.
M_analysis_slot(t) == 1

analysis_slot(t) == t

\* self.analyzer of validate, or the module-level analyzer.
AnalyzerOf(t) ==
    IF threads[t].call.op = "validate" THEN validator.analyzer ELSE analyzer

\* A thread is inside a call.
Running(t) == threads[t].pc \notin {"idle", "done"}

\* Thread t takes a step while another thread is inside a call.
Overlaps(t) == \E u \in Threads \ {t} : Running(u)

Idle == call = NoCall

\* routes.py: generator = PasswordGenerator(); analyzer = PasswordAnalyzer();
\* policy = PasswordPolicy(); validator = PolicyValidator(policy)
Init ==
    /\ call = NoCall
    /\ ret = NoRet
    /\ generator = PasswordGenerator_init
    /\ analyzer = PasswordAnalyzer_init
    /\ validator = PolicyValidator_init(PasswordPolicy_init)
    /\ threads = [t \in Threads |-> IdleThread]

\* A generator that keeps the last password it made.
M_Generate ==
    /\ Idle
    /\ \E length \in Lengths, options \in Options :
         \E rnd \in GenerateDraws(length, options) :
           /\ call' = [op |-> "generate", length |-> length, options |-> options]
           /\ ret' = generate(length, options, rnd)
           /\ generator' = [last_password |-> generate(length, options, rnd)]
                                @@ generator
    /\ UNCHANGED <<analyzer, validator, threads>>

\* generator.generate(length, options)
Generate ==
    /\ Idle
    /\ \E length \in Lengths, options \in Options :
         \E rnd \in GenerateDraws(length, options) :
           /\ call' = [op |-> "generate", length |-> length, options |-> options]
           /\ ret' = generate(length, options, rnd)
    /\ UNCHANGED <<generator, analyzer, validator, threads>>

\* generator.generate_multiple(count, length, options)
GenerateMultiple ==
    /\ Idle
    /\ \E count \in Counts, length \in Lengths, options \in Options :
         \E rnds \in [1..count -> UniformDraws(length, options)] :
           /\ call' = [op |-> "generate_multiple", count |-> count,
                       length |-> length, options |-> options]
           /\ ret' = generate_multiple(count, length, options, rnds)
    /\ UNCHANGED <<generator, analyzer, validator, threads>>

\* generator.calculate_entropy(length, options)
CalculateEntropy ==
    /\ Idle
    /\ \E length \in Lengths, options \in Options :
           /\ call' = [op |-> "calculate_entropy", length |-> length,
                       options |-> options]
           /\ ret' = PasswordGenerator_calculate_entropy(length, options)
    /\ UNCHANGED <<generator, analyzer, validator, threads>>

\* secure_shuffle(items): call.items is the list as passed, call.items_after
\* the same list object when the call returns, call.draws the values that
\* secrets.randbelow returned to the loop.
SecureShuffle ==
    /\ Idle
    /\ \E items \in ShuffleInputs :
         \E js \in ShuffleDraws(Len(items)) :
           LET r == secure_shuffle(items, js)
           IN  /\ call' = [op |-> "secure_shuffle", items |-> items,
                           items_after |-> r.items, draws |-> js]
               /\ ret' = Return(r.result)
    /\ UNCHANGED <<generator, analyzer, validator, threads>>

\* The call that made a generated password, as the caller remembers it.
GeneratedBy == <<[length |-> call.length, options |-> call.options]>>

\* A detector that adds each password it sees to its list of common patterns.
M_Analyze ==
    /\ \/ /\ Idle
          /\ \E password \in Passwords :
               /\ call' = [op |-> "analyze", password |-> password,
                           generated |-> <<>>]
               /\ ret' = analyze(analyzer, password)
               /\ analyzer' =
                      [analyzer EXCEPT !.pattern_detector.common_patterns =
                                           Append(@, str_lower(password))]
       \/ /\ call.op = "generate" /\ ret.kind = "return"
          /\ call' = [op |-> "analyze", password |-> ret.value,
                      generated |-> GeneratedBy]
          /\ ret' = analyze(analyzer, ret.value)
          /\ analyzer' =
                 [analyzer EXCEPT !.pattern_detector.common_patterns =
                                      Append(@, str_lower(ret.value))]
    /\ UNCHANGED <<generator, validator, threads>>

\* analyzer.analyze(password), on one of the strings above or on the password
\* generate has just returned to the caller.
Analyze ==
    /\ \/ /\ Idle
          /\ \E password \in Passwords :
               /\ call' = [op |-> "analyze", password |-> password,
                           generated |-> <<>>]
               /\ ret' = analyze(analyzer, password)
       \/ /\ call.op = "generate" /\ ret.kind = "return"
          /\ call' = [op |-> "analyze", password |-> ret.value,
                      generated |-> GeneratedBy]
          /\ ret' = analyze(analyzer, ret.value)
    /\ UNCHANGED <<generator, analyzer, validator, threads>>

\* validator.validate(password), on the same passwords
Validate ==
    /\ \/ /\ Idle
          /\ \E password \in Passwords :
               /\ call' = [op |-> "validate", password |-> password,
                           generated |-> <<>>]
               /\ ret' = validate(validator, password)
       \/ /\ call.op = "generate" /\ ret.kind = "return"
          /\ call' = [op |-> "validate", password |-> ret.value,
                      generated |-> GeneratedBy]
          /\ ret' = validate(validator, ret.value)
    /\ UNCHANGED <<generator, analyzer, validator, threads>>

\* The dicts handed to calculate_score on its own: what analyze has built when
\* it calls the scorer, for no to four character classes, lengths on both
\* sides of every step of the length score, entropies (in millionths of a
\* bit) on both sides of every step of the entropy score, and every
\* combination of the five pattern flags the scorer reads.
ScoreClasses ==
    {<<FALSE, FALSE, FALSE, FALSE>>, <<TRUE, FALSE, FALSE, FALSE>>,
     <<TRUE, TRUE, FALSE, FALSE>>, <<TRUE, TRUE, TRUE, FALSE>>,
     <<TRUE, TRUE, TRUE, TRUE>>}

ScoreLengths == {1, 7, 8, 9, 10, 12, 16, 19, 20}

ScoreEntropies ==
    {0, 1999999, 39 * Micro, 40 * Micro - 1, 40 * Micro, 60 * Micro - 1,
     60 * Micro, 80 * Micro, 100 * Micro - 1, 100 * Micro, 839 * Micro}

ScoreReports ==
    {with_diversity(
         [length |-> length,
          has_uppercase |-> classes[1],
          has_lowercase |-> classes[2],
          has_numbers |-> classes[3],
          has_symbols |-> classes[4],
          has_common_patterns |-> flags[1],
          has_sequential |-> flags[2],
          has_keyboard_patterns |-> flags[3],
          has_repeated_chars |-> flags[4],
          has_date_pattern |-> flags[5],
          has_number_only_suffix |-> FALSE])
     @@ [entropy |-> entropy] :
         length \in ScoreLengths, classes \in ScoreClasses,
         entropy \in ScoreEntropies, flags \in [1..5 -> BOOLEAN]}

\* strength_scorer.calculate_score(password, analysis); the scorer reads the
\* dict only.
CalculateScore ==
    /\ Idle
    /\ \E analysis \in ScoreReports :
         /\ call' = [op |-> "calculate_score", analysis |-> analysis]
         /\ ret' = Return(calculate_score(<<>>, analysis))
    /\ UNCHANGED <<generator, analyzer, validator, threads>>

\* The policies a validator is constructed with: minimum lengths 0 and the
\* default, maximum lengths 8 and the default, every combination of the six
\* switches, and no minimum entropy or one of 60 bits.
Policies ==
    {[min_length |-> min_length,
      max_length |-> max_length,
      require_uppercase |-> require[1],
      require_lowercase |-> require[2],
      require_numbers |-> require[3],
      require_symbols |-> require[4],
      min_entropy |-> min_entropy,
      forbid_common_patterns |-> forbid[1],
      forbid_sequential |-> forbid[2]] :
         min_length \in {0, DEFAULT_POLICY_MIN_LENGTH},
         max_length \in {8, DEFAULT_POLICY_MAX_LENGTH},
         require \in [1..4 -> BOOLEAN],
         forbid \in [1..2 -> BOOLEAN],
         min_entropy \in {<<>>, <<60 * Micro>>}}

\* PolicyValidator(PasswordPolicy(...)).validate(password): a validator of
\* its own for the policy, with an analyzer of its own. The analysis does
\* not depend on the policy and is computed once for each string.
ValidateWith ==
    /\ Idle
    /\ \E password \in Passwords :
         \E outcome \in {analyze(PasswordAnalyzer_init, password)} :
             \E policy \in Policies :
                 /\ call' = [op |-> "validate_with", policy |-> policy,
                             password |-> password]
                 /\ ret' = validate_outcome(
                               PolicyValidator_init(policy).policy, password,
                               outcome)
    /\ UNCHANGED <<generator, analyzer, validator, threads>>

\* Strings validated in pairs: strings of nine characters that have a
\* lowercase letter, a digit and a symbol for the analyzer (one of them with
\* a non-ASCII capital as its symbol), two of an uppercase letter, lowercase
\* letters and a digit, and a short one.
\*   kzvyhwp!9
\*   kzvyhwp\xc99
\*   mzqyhwp#7
\*   Kzvyhwpm9
\*   Kzvyhwpx9
\*   Ab1!
PairPasswords ==
    {<<107, 122, 118, 121, 104, 119, 112, 33, 57>>,
     <<107, 122, 118, 121, 104, 119, 112, 201, 57>>,
     <<109, 122, 113, 121, 104, 119, 112, 35, 55>>,
     <<75, 122, 118, 121, 104, 119, 112, 109, 57>>,
     <<75, 122, 118, 121, 104, 119, 112, 120, 57>>,
     <<65, 98, 49, 33>>}

\* validate(password) followed by validate(other) on one validator: the two
\* results, or the first exception.
validate_twice(policy, password, first, other, second) ==
    IF validate_outcome(policy, password, first).kind = "raise"
    THEN validate_outcome(policy, password, first)
    ELSE IF validate_outcome(policy, other, second).kind = "raise"
    THEN validate_outcome(policy, other, second)
    ELSE Return(<<validate_outcome(policy, password, first).value,
                  validate_outcome(policy, other, second).value>>)

\* Two calls of PolicyValidator(policy).validate, on two strings.
ValidateTwice ==
    /\ Idle
    /\ \E password \in PairPasswords :
         \E first \in {analyze(PasswordAnalyzer_init, password)} :
           \E other \in PairPasswords :
             \E second \in {analyze(PasswordAnalyzer_init, other)} :
               \E policy \in Policies :
                 /\ call' = [op |-> "validate_twice", policy |-> policy,
                             password |-> password, other |-> other]
                 /\ ret' = validate_twice(PolicyValidator_init(policy).policy,
                                          password, first, other, second)
    /\ UNCHANGED <<generator, analyzer, validator, threads>>

\* CharsetBuilder.build_charset(options)
BuildCharset ==
    /\ Idle
    /\ \E options \in Options :
         /\ call' = [op |-> "build_charset", options |-> options]
         /\ ret' = build_charset(options)
    /\ UNCHANGED <<generator, analyzer, validator, threads>>

\* The entropies handed to _score_entropy on its own, in millionths of a
\* bit: every half bit from 0 to 110 bits, and the last value below each
\* threshold.
ScoredBits ==
    {(k * Micro) \div 2 : k \in 0..220}
        \cup {38 * Micro - 1, 40 * Micro - 1, 60 * Micro - 1, 80 * Micro - 1,
              100 * Micro - 1}

\* StrengthScorer._score_entropy(entropy)
ScoreEntropy ==
    /\ Idle
    /\ \E entropy \in ScoredBits :
         /\ call' = [op |-> "score_entropy", entropy |-> entropy]
         /\ ret' = Return(_score_entropy(entropy))
    /\ UNCHANGED <<generator, analyzer, validator, threads>>

\* The integers handed to EntropyCalculator.calculate_entropy on its own:
\* negative, zero and positive lengths up to the generator's maximum, and
\* charset sizes from negative ones to 99.
EntropyLengths == (0 - 2)..12 \cup {MAX_PASSWORD_LENGTH - 1, MAX_PASSWORD_LENGTH}

EntropyCharsetSizes == (0 - 2)..99

\* EntropyCalculator.calculate_entropy(length, charset_size)
EntropyOf ==
    /\ Idle
    /\ \E length \in EntropyLengths, charset_size \in EntropyCharsetSizes :
         /\ call' = [op |-> "entropy_of", length |-> length,
                     charset_size |-> charset_size]
         /\ ret' = Return(EntropyCalculator_calculate_entropy(length,
                                                              charset_size))
    /\ UNCHANGED <<generator, analyzer, validator, threads>>

\* The thresholds of _format_time, as base-2 logarithms of seconds.
BandThresholds ==
    {0 - math_log2(1000), 0, math_log2(60), math_log2(3600), math_log2(86400),
     math_log2(2592000), math_log2(31536000),
     math_log2(31536000) + math_log2(100),
     math_log2(31536000) + math_log2(1000)}

\* The entropies handed to the estimator on its own, in millionths of a bit:
\* every half bit from -1 to 80, the two sides of every threshold of
\* _format_time, 128 bits, and values on both sides of 1024 bits.
EstimateBits ==
    {k * (Micro \div 2) : k \in (0 - 2)..160}
    \cup {t + math_log2(2 * BRUTE_FORCE_RATE) + d :
              t \in BandThresholds, d \in {0 - 10, 10}}
    \cup {128 * Micro, 1024 * Micro - 100000, 1024 * Micro, 1100 * Micro}

\* crack_time_estimator.estimate_from_entropy(entropy), on the estimator of
\* the module-level analyzer
EstimateFromEntropy ==
    /\ Idle
    /\ \E entropy \in EstimateBits :
         /\ call' = [op |-> "estimate_from_entropy", entropy |-> entropy]
         /\ ret' = estimate_from_entropy(analyzer.crack_time_estimator, entropy)
    /\ UNCHANGED <<generator, analyzer, validator, threads>>

\* crack_time_estimator.get_security_level(entropy)
GetSecurityLevel ==
    /\ Idle
    /\ \E entropy \in EstimateBits :
         /\ call' = [op |-> "get_security_level", entropy |-> entropy]
         /\ ret' = get_security_level(analyzer.crack_time_estimator, entropy)
    /\ UNCHANGED <<generator, analyzer, validator, threads>>

\* The caller drops the outcome; nothing of the call remains.
Discard ==
    /\ ~Idle
    /\ call' = NoCall
    /\ ret' = NoRet
    /\ UNCHANGED <<generator, analyzer, validator, threads>>

\* Thread t calls one of the four operations on the shared instances.
ThreadCall(t) ==
    /\ threads[t].pc = "idle"
    /\ \E c \in ThreadCalls :
         threads' = [threads EXCEPT ![t].call = c, ![t].pc = "start"]
    /\ UNCHANGED <<call, ret, generator, analyzer, validator>>

\* analyze up to analysis['strength'] (password_analyzer.py:55-83), in a call
\* of analyze or inside validate: the early return for the empty string, or
\* the local dict with the detector's and the scorer's entries.
AnalyzeScore(t) ==
    /\ threads[t].pc = "start"
    /\ threads[t].call.op \in {"analyze", "validate"}
    /\ threads' =
           IF threads[t].call.password = <<>>
           THEN IF threads[t].call.op = "analyze"
                THEN [threads EXCEPT ![t].ret = Return(_empty_analysis),
                                     ![t].pc = "done",
                                     ![t].overlapped = @ \/ Overlaps(t)]
                ELSE [threads EXCEPT ![t].analyzed = Return(_empty_analysis),
                                     ![t].pc = "finish",
                                     ![t].overlapped = @ \/ Overlaps(t)]
           ELSE [threads EXCEPT
                    ![analysis_slot(t)].analysis =
                        with_strength(with_score(threads[t].call.password,
                            with_entropy(threads[t].call.password,
                                with_diversity(
                                    with_patterns(AnalyzerOf(t),
                                        threads[t].call.password,
                                        character_types(
                                            threads[t].call.password)))))),
                    ![t].pc = "estimate",
                    ![t].overlapped = @ \/ Overlaps(t)]
    /\ UNCHANGED <<call, ret, generator, analyzer, validator>>

\* The rest of analyze (password_analyzer.py:86-103): the estimates, the
\* recommendations and the detected patterns, from the local dict the
\* statements before have built.
AnalyzeEstimate(t) ==
    /\ threads[t].pc = "estimate"
    /\ DOMAIN threads[analysis_slot(t)].analysis # {}
    /\ threads' =
           IF threads[t].call.op = "analyze"
           THEN [threads EXCEPT
                    ![t].ret = with_estimates(AnalyzerOf(t),
                                   threads[t].call.password,
                                   threads[analysis_slot(t)].analysis),
                    ![t].pc = "done",
                    ![t].overlapped = @ \/ Overlaps(t)]
           ELSE [threads EXCEPT
                    ![t].analyzed = with_estimates(AnalyzerOf(t),
                                        threads[t].call.password,
                                        threads[analysis_slot(t)].analysis),
                    ![t].pc = "finish",
                    ![t].overlapped = @ \/ Overlaps(t)]
    /\ UNCHANGED <<call, ret, generator, analyzer, validator>>

\* validate once analyze has ended: the errors of every check, which read
\* the password and self.policy only, the warnings and the result.
ValidateFinish(t) ==
    /\ threads[t].pc = "finish"
    /\ threads' = [threads EXCEPT
                      ![t].ret = validate_outcome(validator.policy,
                                     threads[t].call.password,
                                     threads[t].analyzed),
                      ![t].pc = "done",
                      ![t].overlapped = @ \/ Overlaps(t)]
    /\ UNCHANGED <<call, ret, generator, analyzer, validator>>

\* The statements of generate before the first draw, in a call of generate
\* or in an iteration of generate_multiple, whose list is complete when it
\* has count passwords.
GenerateStart(t) ==
    /\ threads[t].pc = "start"
    /\ threads[t].call.op \in {"generate", "generate_multiple"}
    /\ threads' =
           IF /\ threads[t].call.op = "generate_multiple"
              /\ Len(threads[t].made) = threads[t].call.count
           THEN [threads EXCEPT ![t].ret = Return(threads[t].made),
                                ![t].pc = "done",
                                ![t].overlapped = @ \/ Overlaps(t)]
           ELSE IF generate_checks(threads[t].call.length,
                                   threads[t].call.options).kind = "raise"
           THEN [threads EXCEPT
                    ![t].ret = generate_checks(threads[t].call.length,
                                               threads[t].call.options),
                    ![t].pc = "done",
                    ![t].overlapped = @ \/ Overlaps(t)]
           ELSE [threads EXCEPT ![t].password_chars = <<>>,
                                ![t].pc = "choose",
                                ![t].overlapped = @ \/ Overlaps(t)]
    /\ UNCHANGED <<call, ret, generator, analyzer, validator>>

\* The two loops of secure_random_choice, with the values the CSPRNG hands
\* to this call.
GenerateChoose(t) ==
    /\ threads[t].pc = "choose"
    /\ \E choice \in ThreadChoices(threads[t].call.length,
                                   threads[t].call.options) :
         threads' = [threads EXCEPT
                        ![t].password_chars =
                            choose_characters(threads[t].call.length,
                                generate_checks(threads[t].call.length,
                                    threads[t].call.options).value,
                                choice).value,
                        ![t].choice = choice,
                        ![t].pc = "shuffle",
                        ![t].overlapped = @ \/ Overlaps(t)]
    /\ UNCHANGED <<call, ret, generator, analyzer, validator>>

\* secure_shuffle(password_chars) and the return of generate; inside
\* generate_multiple the password joins the list and the next iteration
\* starts.
GenerateShuffle(t) ==
    /\ threads[t].pc = "shuffle"
    /\ \E js \in ThreadShuffles(Len(threads[t].password_chars)) :
         threads' =
             IF threads[t].call.op = "generate"
             THEN [threads EXCEPT
                      ![t].ret = Return(secure_shuffle(
                                     threads[t].password_chars, js).result),
                      ![t].drawn = <<[choice |-> threads[t].choice,
                                      randbelow |-> js]>>,
                      ![t].pc = "done",
                      ![t].overlapped = @ \/ Overlaps(t)]
             ELSE [threads EXCEPT
                      ![t].made = Append(@, secure_shuffle(
                                      threads[t].password_chars, js).result),
                      ![t].drawn = Append(@, [choice |-> threads[t].choice,
                                              randbelow |-> js]),
                      ![t].pc = "start",
                      ![t].overlapped = @ \/ Overlaps(t)]
    /\ UNCHANGED <<call, ret, generator, analyzer, validator>>

\* The caller takes the outcome and the call's frame is gone.
ThreadReturn(t) ==
    /\ threads[t].pc = "done"
    /\ threads' = [threads EXCEPT ![t] = IdleThread]
    /\ UNCHANGED <<call, ret, generator, analyzer, validator>>

Next ==
    \/ Generate
    \/ GenerateMultiple
    \/ CalculateEntropy
    \/ SecureShuffle
    \/ Analyze
    \/ Validate
    \/ Discard

Spec == Init /\ [][Next]_vars

\* The calls of the scorer, the entropy calculator and the crack-time
\* estimator on their own, next to analyze.
NextFunctions ==
    \/ CalculateScore
    \/ ScoreEntropy
    \/ BuildCharset
    \/ EntropyOf
    \/ EstimateFromEntropy
    \/ GetSecurityLevel
    \/ Analyze
    \/ Discard

SpecFunctions == Init /\ [][NextFunctions]_vars

\* validate under the policies of Policies, the default policy of the
\* module-level validator among them.
NextPolicies ==
    \/ ValidateWith
    \/ Discard

SpecPolicies == Init /\ [][NextPolicies]_vars

\* Calls of generate, and pairs of calls of validate under every policy.
NextContent ==
    \/ Generate
    \/ ValidateTwice
    \/ Discard

SpecContent == Init /\ [][NextContent]_vars

\* The threads of the server, each making calls on the shared instances, in
\* every interleaving of their steps.
NextThreads ==
    \E t \in Threads :
        \/ ThreadCall(t)
        \/ AnalyzeScore(t)
        \/ AnalyzeEstimate(t)
        \/ ValidateFinish(t)
        \/ GenerateStart(t)
        \/ GenerateChoose(t)
        \/ GenerateShuffle(t)
        \/ ThreadReturn(t)

SpecThreads == Init /\ [][NextThreads]_vars

----------------------------------------------------------------------------
(* Vocabulary of the properties *)

Range(f) == {f[i] : i \in DOMAIN f}

\* The characters of one category.
CategoryChars(k) ==
    CASE k = "uppercase" -> Range(UPPERCASE)
      [] k = "lowercase" -> Range(LOWERCASE)
      [] k = "numbers" -> Range(DIGITS)
      [] k = "symbols" -> Range(SYMBOLS)

Enabled(options) == {k \in OptionKeys : options[k]}

ValidLength(length) == length >= 4 /\ length <= 128

HasEachEnabled(password, options) ==
    \A k \in Enabled(options) :
        \E i \in DOMAIN password : password[i] \in CategoryChars(k)

OnlyEnabled(password, options) ==
    \A i \in DOMAIN password :
        \E k \in Enabled(options) : password[i] \in CategoryChars(k)

Occurrences(list, x) == Cardinality({i \in DOMAIN list : list[i] = x})

Returned(op) == call.op = op /\ ret.kind = "return"

Raised(op) == call.op = op /\ ret.kind = "raise"

----------------------------------------------------------------------------
(* Properties of the generator *)

\* C1 (diversity guarantee): a call generate(length, options) with length in
\* 4..128 and at least one category enabled returns a string that holds at
\* least one character of every enabled category, whatever the draws.
C1_Diversity ==
    (call.op = "generate" /\ ValidLength(call.length)
        /\ Enabled(call.options) # {})
    => (ret.kind = "return" /\ HasEachEnabled(ret.value, call.options))

\* generate has returned with three categories enabled and one position filled
\* from the full alphabet.
C1_Witness ==
    /\ Returned("generate")
    /\ Cardinality(Enabled(call.options)) = 3
    /\ call.length = 4

\* C2 (length exactness): a call generate(length, options) on valid input
\* returns a string of exactly length characters.
C2_LengthExact ==
    (call.op = "generate" /\ ValidLength(call.length)
        /\ Enabled(call.options) # {})
    => (ret.kind = "return" /\ Len(ret.value) = call.length)

\* generate has returned a password of the largest length, 128.
C2_Witness ==
    /\ Returned("generate")
    /\ call.length = 128
    /\ Cardinality(Enabled(call.options)) = 2

\* C3 (alphabet closure): every character of the string generate returns
\* belongs to an enabled category.
C3_AlphabetClosure ==
    Returned("generate") => OnlyEnabled(ret.value, call.options)

\* generate has returned with a single category enabled, so that three of the
\* four positions were filled from the alphabet.
C3_Witness ==
    /\ Returned("generate")
    /\ Enabled(call.options) = {"symbols"}
    /\ call.length = 4

\* C4: for a length below 4 or above 128, generate raises InvalidLengthError
\* with the fields (length, 4, 128), whatever the options; the lengths 4 and
\* 128 are accepted (with a category enabled, the call returns).
C4_LengthRange ==
    call.op = "generate" =>
        /\ ~ValidLength(call.length) =>
              /\ ret.kind = "raise"
              /\ ret.exc = [type |-> "InvalidLengthError", length |-> call.length,
                            min_len |-> 4, max_len |-> 128]
        /\ (call.length \in {4, 128} /\ Enabled(call.options) # {}) =>
              ret.kind = "return"

\* generate has raised for a length above 128 with no category enabled.
C4_Witness ==
    /\ Raised("generate")
    /\ call.length > 128
    /\ Enabled(call.options) = {}

\* C5, as stated: with no category enabled, generate (for an in-range length)
\* and calculate_entropy (for every length) both raise InvalidCharsetError.
C5_AsStated ==
    /\ (call.op = "generate" /\ ValidLength(call.length)
            /\ Enabled(call.options) = {})
        => (ret.kind = "raise" /\ ret.exc.type = "InvalidCharsetError")
    /\ (call.op = "calculate_entropy" /\ Enabled(call.options) = {})
        => (ret.kind = "raise" /\ ret.exc.type = "InvalidCharsetError")

\* C5, amended: with no category enabled, generate raises InvalidCharsetError
\* for every in-range length, and calculate_entropy raises nothing: it returns
\* 0.0 for every length.
C5_NoCategory ==
    /\ (call.op = "generate" /\ ValidLength(call.length)
            /\ Enabled(call.options) = {})
        => (ret.kind = "raise" /\ ret.exc = [type |-> "InvalidCharsetError"])
    /\ (call.op = "calculate_entropy" /\ Enabled(call.options) = {})
        => (ret.kind = "return" /\ ret.value = 0)

\* generate has raised for an in-range length with no category enabled.
C5_Witness ==
    /\ Raised("generate")
    /\ ValidLength(call.length)
    /\ Enabled(call.options) = {}

\* C6, as stated: when more categories are enabled than the length has
\* positions, generate raises InvalidLengthError with the fields
\* (length, number of required categories, 128).
C6_AsStated ==
    (call.op = "generate" /\ Cardinality(Enabled(call.options)) > call.length)
    => /\ ret.kind = "raise"
       /\ ret.exc = [type |-> "InvalidLengthError", length |-> call.length,
                     min_len |-> Cardinality(Enabled(call.options)),
                     max_len |-> 128]

\* C6, amended: when more categories are enabled than the length has
\* positions, generate raises InvalidLengthError with the fields
\* (length, 4, 128): the length is then below 4 and the range check raises
\* first. No InvalidLengthError of generate carries another minimum than 4.
C6_TooManyCategories ==
    /\ (call.op = "generate"
            /\ Cardinality(Enabled(call.options)) > call.length)
        => /\ ret.kind = "raise"
           /\ ret.exc = [type |-> "InvalidLengthError", length |-> call.length,
                         min_len |-> 4, max_len |-> 128]
    /\ (Raised("generate") /\ ret.exc.type = "InvalidLengthError")
        => (ret.exc.min_len = 4 /\ ~ValidLength(call.length))

\* generate(3, all four categories) has raised.
C6_Witness ==
    /\ Raised("generate")
    /\ call.length = 3
    /\ Cardinality(Enabled(call.options)) = 4

\* What generate promises of a password made for (length, options).
GeneratePost(password, length, options) ==
    /\ Len(password) = length
    /\ HasEachEnabled(password, options)
    /\ OnlyEnabled(password, options)

\* C7 (no partial batch): generate_multiple(count, length, options) either
\* returns a list of exactly count passwords, each meeting the postconditions
\* of generate for (length, options), or raises the error generate raises
\* for (length, options); it raises whenever count >= 1 and generate raises.
C7_NoPartialBatch ==
    call.op = "generate_multiple" =>
        /\ ret.kind \in {"return", "raise"}
        /\ ret.kind = "return" =>
              /\ Len(ret.value) = call.count
              /\ \A k \in DOMAIN ret.value :
                    GeneratePost(ret.value[k], call.length, call.options)
        /\ ret.kind = "raise" =>
              IF ValidLength(call.length)
              THEN Enabled(call.options) = {}
                   /\ ret.exc = [type |-> "InvalidCharsetError"]
              ELSE ret.exc = [type |-> "InvalidLengthError",
                              length |-> call.length,
                              min_len |-> 4, max_len |-> 128]
        /\ (call.count >= 1 /\ (~ValidLength(call.length)
                                  \/ Enabled(call.options) = {}))
              => ret.kind = "raise"

\* generate_multiple has returned a batch of two different passwords.
C7_Witness ==
    /\ Returned("generate_multiple")
    /\ call.count = 2
    /\ Len(ret.value) = 2
    /\ ret.value[1] # ret.value[2]

----------------------------------------------------------------------------
(* Properties of the secure random source *)

\* C8: secure_shuffle returns a list with the same length and the same number
\* of occurrences of every element as its input, and the caller's list is
\* the same after the call as before.
C8_ShufflePermutes ==
    call.op = "secure_shuffle" =>
        /\ ret.kind = "return"
        /\ Len(ret.value) = Len(call.items)
        /\ \A x \in Range(call.items) \cup Range(ret.value) :
              Occurrences(ret.value, x) = Occurrences(call.items, x)
        /\ call.items_after = call.items

\* secure_shuffle has returned a list of four items, one of them twice, in
\* another order than the input's.
C8_Witness ==
    /\ Returned("secure_shuffle")
    /\ Len(call.items) = 4
    /\ Cardinality(Range(call.items)) = 3
    /\ ret.value # call.items

----------------------------------------------------------------------------
(* Properties of the analyzer *)

\* C9 (idempotence of analysis): whatever calls of generate, analyze or
\* validate came before, a call analyze(p) has the outcome that a newly
\* constructed analyzer gives for p, so that two calls on the same string
\* return reports equal in every field: nothing an earlier call left behind
\* reaches the report.
C9_Idempotent ==
    call.op = "analyze" => ret = analyze(PasswordAnalyzer_init, call.password)

\* analyze has returned the report of "hT5)mK2(wQ9!", a string it has no
\* improvement to recommend for.
C9_Witness ==
    /\ Returned("analyze")
    /\ call.password = <<104, 84, 53, 41, 109, 75, 50, 40, 119, 81, 57, 33>>
    /\ ret.value.score = 88
    /\ ret.value.recommendations = <<"Password meets security best practices!">>

\* C10 (round trip): the report analyze returns for a password that
\* generate(length, options) has just returned gives the length as length
\* and each of has_uppercase, has_lowercase, has_numbers, has_symbols as
\* true exactly when its category was enabled.
C10_RoundTrip ==
    (call.op = "analyze" /\ call.generated # <<>>) =>
        LET g == call.generated[1]
        IN  /\ ret.kind = "return"
            /\ ret.value.length = g.length
            /\ ret.value.has_uppercase = g.options["uppercase"]
            /\ ret.value.has_lowercase = g.options["lowercase"]
            /\ ret.value.has_numbers = g.options["numbers"]
            /\ ret.value.has_symbols = g.options["symbols"]

\* A password of digits and lowercase letters only, of the largest length,
\* has been generated and analyzed.
C10_Witness ==
    /\ Returned("analyze")
    /\ call.generated # <<>>
    /\ call.generated[1].length = MAX_PASSWORD_LENGTH
    /\ Enabled(call.generated[1].options) = {"numbers", "lowercase"}
    /\ ret.value.has_numbers /\ ~ret.value.has_symbols

\* An analyzer whose detector, scorer and estimator are missing: any use of
\* one of them fails.
WithoutComponents ==
    [pattern_detector |-> <<>>,
     strength_scorer |-> <<>>,
     crack_time_estimator |-> <<>>]

\* C11 (empty input): analyze("") returns the fixed report: score 0,
\* strength "Weak", entropy 0.0, length 0, crack_time "Instant", the one
\* recommendation "Enter a password to analyze", no detected pattern, and no
\* pattern flag at all; it does so without its detector, scorer or estimator:
\* an analyzer that has none of the three returns the same report.
C11_EmptyReport ==
    (call.op = "analyze" /\ call.password = <<>>) =>
        /\ ret.kind = "return"
        /\ ret.value.score = 0
        /\ ret.value.strength = "Weak"
        /\ ret.value.entropy = 0
        /\ ret.value.length = 0
        /\ ret.value.crack_time = <<73, 110, 115, 116, 97, 110, 116>>
        /\ ret.value.recommendations = <<"Enter a password to analyze">>
        /\ ret.value.detected_patterns = <<>>
        /\ DOMAIN ret.value \cap DOMAIN detect_all_patterns(
               PatternDetector_init, <<>>) = {}
        /\ analyze(WithoutComponents, <<>>) = ret

\* analyze("") has returned.
C11_Witness ==
    /\ Returned("analyze")
    /\ call.password = <<>>
    /\ ret.value.security_level = "Very Weak"

----------------------------------------------------------------------------
(* Properties of the scorer *)

\* The four contributions as the claim states them; bits in millionths.
LengthPoints(length) ==
    IF length >= 20 THEN 30
    ELSE IF length >= 16 THEN 28
    ELSE IF length >= 12 THEN 24
    ELSE IF length >= 10 THEN 20
    ELSE IF length >= 8 THEN 15
    ELSE 2 * length

ClassesPresent(report) ==
    Cardinality({k \in {"has_uppercase", "has_lowercase", "has_numbers",
                        "has_symbols"} : report[k]})

DiversityPoints(report) == (25 * ClassesPresent(report)) \div 4

EntropyPoints(bits) ==
    IF bits >= 100 * Micro THEN 30
    ELSE IF bits >= 80 * Micro THEN 28
    ELSE IF bits >= 60 * Micro THEN 24
    ELSE IF bits >= 40 * Micro THEN 18
    ELSE bits \div (2 * Micro)

PatternPoints(report) ==
    (IF ~report.has_common_patterns THEN 10 ELSE 0 - 25)
    + (IF ~report.has_sequential THEN 5 ELSE 0 - 15)
    - (IF report.has_keyboard_patterns THEN 10 ELSE 0)
    - (IF report.has_repeated_chars THEN 10 ELSE 0)
    - (IF report.has_date_pattern THEN 5 ELSE 0)

Clamped(n) == IF n < 0 THEN 0 ELSE IF n > 100 THEN 100 ELSE n

StatedScore(report) ==
    Clamped(LengthPoints(report.length) + DiversityPoints(report)
            + EntropyPoints(report.entropy) + PatternPoints(report))

\* C12 (score formula): calculate_score returns max(0, min(100, L + D + E + P)),
\* an integer in 0..100, for the dict it is handed, and the score in every
\* report analyze builds for a non-empty string is that value for the report.
C12_ScoreFormula ==
    /\ call.op = "calculate_score" =>
           /\ ret.value = StatedScore(call.analysis)
           /\ ret.value \in 0..100
    /\ (Returned("analyze") /\ call.password # <<>>) =>
           /\ ret.value.score = StatedScore(ret.value)
           /\ ret.value.score \in 0..100

\* The scorer has clamped a negative sum to 0: eight characters of one class
\* with every penalised pattern.
C12_Witness ==
    /\ call.op = "calculate_score"
    /\ call.analysis.length = 8
    /\ ClassesPresent(call.analysis) = 1
    /\ call.analysis.entropy = 40 * Micro - 1
    /\ PatternPoints(call.analysis) = 0 - 65
    /\ ret.value = 0

\* C13 (pattern cap): every report analyze returns for a string in which both
\* a common pattern and a sequential pattern are detected is labelled "Weak"
\* or "Medium", whatever its length, classes and entropy; every score the
\* scorer gives a dict with both flags set is below the score where "Strong"
\* starts.
C13_PatternCap ==
    /\ (Returned("analyze") /\ call.password # <<>>
        /\ ret.value.has_common_patterns /\ ret.value.has_sequential) =>
           ret.value.strength \in {"Weak", "Medium"}
    /\ (call.op = "calculate_score"
        /\ call.analysis.has_common_patterns /\ call.analysis.has_sequential) =>
           ret.value < SCORE_MEDIUM_THRESHOLD

\* A string of 22 characters of all four classes and 144 bits, with both
\* patterns, has been labelled "Medium".
C13_Witness ==
    /\ Returned("analyze")
    /\ call.password # <<>>
    /\ ret.value.has_common_patterns /\ ret.value.has_sequential
    /\ ret.value.length >= 20
    /\ ret.value.entropy >= 100 * Micro
    /\ ClassesPresent(ret.value) = 4
    /\ ret.value.strength = "Medium"

----------------------------------------------------------------------------
(* Properties of the validator *)

\* A call of validate, under whichever policy, and its policy.
Validated == call.op \in {"validate", "validate_with"}

PolicyOf == IF call.op = "validate_with" THEN call.policy ELSE validator.policy

\* C14 (validity): in every result validate returns, for every string and
\* every policy, valid is true exactly when errors is empty, and warnings is
\* non-empty only when errors is empty.
C14_ValidIffNoErrors ==
    (Validated /\ ret.kind = "return") =>
        /\ ret.value.valid \in BOOLEAN
        /\ ret.value.valid <=> (ret.value.errors = <<>>)
        /\ ret.value.warnings # <<>> => ret.value.errors = <<>>

\* Both kinds of result have been returned under a policy other than the
\* default: a valid one with a warning, and an invalid one with several
\* errors and no warning.
C14_Witness ==
    /\ call.op = "validate_with" /\ ret.kind = "return"
    /\ call.policy # PasswordPolicy_init
    /\ \/ ret.value.valid /\ ret.value.warnings # <<>>
       \/ ~ret.value.valid /\ Len(ret.value.errors) >= 2

\* The checks of validate in their order, and whether a string fails one
\* under a policy; the entropy is that of the string's character classes.
Checks ==
    <<"min_length", "max_length", "uppercase", "lowercase", "number",
      "symbol", "common_pattern", "sequential_pattern", "min_entropy">>

Fails(check, policy, password) ==
    CASE check = "min_length" -> Len(password) < policy.min_length
      [] check = "max_length" -> Len(password) > policy.max_length
      [] check = "uppercase" ->
             policy.require_uppercase
             /\ ~\E i \in DOMAIN password : str_isupper(password[i])
      [] check = "lowercase" ->
             policy.require_lowercase
             /\ ~\E i \in DOMAIN password : str_islower(password[i])
      [] check = "number" ->
             policy.require_numbers
             /\ ~\E i \in DOMAIN password : str_isdigit(password[i])
      [] check = "symbol" ->
             policy.require_symbols
             /\ ~\E i \in DOMAIN password : ~str_isalnum(password[i])
      [] check = "common_pattern" ->
             policy.forbid_common_patterns
             /\ has_common_patterns(PatternDetector_init, password)
      [] check = "sequential_pattern" ->
             policy.forbid_sequential
             /\ has_sequential_patterns(PatternDetector_init, password)
      [] check = "min_entropy" ->
             /\ policy.min_entropy # <<>>
             /\ _calculate_entropy(password, character_types(password))
                    < policy.min_entropy[1]

FailedChecks(policy, password) ==
    SelectSeq(Checks, LAMBDA check : Fails(check, policy, password))

\* The check an error message belongs to.
CheckOf(message) ==
    CASE message.text = "Password must be at least {} characters" -> "min_length"
      [] message.text = "Password must not exceed {} characters" -> "max_length"
      [] message.text = "Password must contain at least one uppercase letter" ->
             "uppercase"
      [] message.text = "Password must contain at least one lowercase letter" ->
             "lowercase"
      [] message.text = "Password must contain at least one number" -> "number"
      [] message.text = "Password must contain at least one symbol" -> "symbol"
      [] message.text = "Password contains common weak patterns" ->
             "common_pattern"
      [] message.text = "Password contains sequential characters" ->
             "sequential_pattern"
      [] message.text = "Password entropy too low ({} < {} bits)" ->
             "min_entropy"

\* What the claim says of a result: one error for each failed check, in the
\* order of the checks, and the minimum-length message first, with the
\* policy's minimum, when the string is shorter than that.
ErrorsAsStated(policy, password, result) ==
    /\ [i \in DOMAIN result.errors |-> CheckOf(result.errors[i])]
           = FailedChecks(policy, password)
    /\ Len(password) < policy.min_length =>
           /\ ~result.valid
           /\ result.errors[1]
                  = Message("Password must be at least {} characters",
                            <<policy.min_length>>)

\* C15 (all checks): validate evaluates every check and gives one error for
\* each failed check in the fixed order, for every string and policy; a
\* string shorter than policy.min_length gets an invalid result whose first
\* error is the minimum-length message naming policy.min_length.
C15_AllChecks ==
    Validated =>
        /\ ret.kind = "return"
        /\ ErrorsAsStated(PolicyOf, call.password, ret.value)

\* The same of the results validate does return.
C15_ReturnedResults ==
    (Validated /\ ret.kind = "return") =>
        ErrorsAsStated(PolicyOf, call.password, ret.value)

\* "Ab1!" under the default policy: invalid, the first error names 8.
C15_ShortWitness ==
    /\ Validated /\ ret.kind = "return"
    /\ call.password = <<65, 98, 49, 33>>
    /\ PolicyOf = PasswordPolicy_init
    /\ ~ret.value.valid
    /\ ret.value.errors[1].args = <<8>>

----------------------------------------------------------------------------
(* Properties of the entropy calculator and the crack-time estimator *)

\* C16 (entropy monotone): calculate_entropy(length, charset_size) does not
\* decrease when either argument grows by one, over negative, zero and
\* positive integers, and is 0.0 whenever length <= 0 or charset_size <= 0.
C16_EntropyMonotone ==
    call.op = "entropy_of" =>
        /\ ret.value
               <= EntropyCalculator_calculate_entropy(call.length + 1,
                                                      call.charset_size)
        /\ ret.value
               <= EntropyCalculator_calculate_entropy(call.length,
                                                      call.charset_size + 1)
        /\ (call.length <= 0 \/ call.charset_size <= 0) => ret.value = 0
        /\ ret.value >= 0

\* A positive length and a charset of several characters: the entropy is
\* positive and grows strictly with either argument.
C16_Witness ==
    /\ call.op = "entropy_of"
    /\ call.length = 12 /\ call.charset_size = 62
    /\ ret.value > 71 * Micro /\ ret.value < 72 * Micro
    /\ ret.value < EntropyCalculator_calculate_entropy(13, 62)
    /\ ret.value < EntropyCalculator_calculate_entropy(12, 63)

\* The labels of the claim. A counted label is a count, a space and a unit
\* word, with or without a trailing "s".
Instant == <<73, 110, 115, 116, 97, 110, 116>>

LessThanOneSecond ==
    <<76, 101, 115, 115, 32, 116, 104, 97, 110, 32, 49, 32, 115, 101, 99, 111,
      110, 100>>

Centuries == <<67, 101, 110, 116, 117, 114, 105, 101, 115>>

MillenniaPlus == <<77, 105, 108, 108, 101, 110, 110, 105, 97, 43>>

\* second, minute, hour, day, month, year: the units of bands 2 to 7
Units ==
    <<<<>>, <<115, 101, 99, 111, 110, 100>>, <<109, 105, 110, 117, 116, 101>>,
      <<104, 111, 117, 114>>, <<100, 97, 121>>, <<109, 111, 110, 116, 104>>,
      <<121, 101, 97, 114>>>>

Singular(n, band) == str_int(n) \o <<32>> \o Units[band]

Plural(n, band) == Singular(n, band) \o <<115>>

LabelCounts == 1..99

IsCounted(label, band) ==
    \E n \in LabelCounts : label \in {Singular(n, band), Plural(n, band)}

CountOf(label, band) ==
    CHOOSE n \in LabelCounts : label \in {Singular(n, band), Plural(n, band)}

\* The band of a label, from the shortest (0, Instant) to the longest
\* (9, Millennia+); 10 for a string that is no label.
LabelBand(label) ==
    IF label = Instant THEN 0
    ELSE IF label = LessThanOneSecond THEN 1
    ELSE IF label = Centuries THEN 8
    ELSE IF label = MillenniaPlus THEN 9
    ELSE IF \E band \in 2..7 : IsCounted(label, band)
        THEN CHOOSE band \in 2..7 : IsCounted(label, band)
    ELSE 10

\* log2 of seconds = 2^bits / (2 * rate), and the claim's bands over it.
Log2Seconds(bits) == bits - math_log2(2 * BRUTE_FORCE_RATE)

\* log2 of the unit the count of a band is taken in: 1 s, 60 s, 1 h, 1 d,
\* 30 d, 365 d
Log2Unit ==
    <<0, 0, math_log2(60), math_log2(3600), math_log2(86400),
      math_log2(2592000), math_log2(31536000)>>

StatedBand(bits) ==
    IF bits <= 0 THEN 0
    ELSE IF Log2Seconds(bits) < 0 - math_log2(1000) THEN 0
    ELSE IF Log2Seconds(bits) < 0 THEN 1
    ELSE IF Log2Seconds(bits) < math_log2(60) THEN 2
    ELSE IF Log2Seconds(bits) < math_log2(3600) THEN 3
    ELSE IF Log2Seconds(bits) < math_log2(86400) THEN 4
    ELSE IF Log2Seconds(bits) < math_log2(2592000) THEN 5
    ELSE IF Log2Seconds(bits) < math_log2(31536000) THEN 6
    ELSE IF Log2Seconds(bits) < math_log2(31536000) + math_log2(100) THEN 7
    ELSE IF Log2Seconds(bits) < math_log2(31536000) + math_log2(1000) THEN 8
    ELSE 9

\* N = floor(seconds / unit) in a counted band
StatedCount(bits, band) ==
    CHOOSE n \in LabelCounts :
        /\ math_log2(n) <= Log2Seconds(bits) - Log2Unit[band]
        /\ math_log2(n + 1) > Log2Seconds(bits) - Log2Unit[band]

\* What the claim says of an estimate: it is a label, of the stated band and
\* with the stated count, of a band no shorter than that of any fewer bits,
\* and "Millennia+" at 128 bits.
EstimateAsStated(bits, label) ==
    /\ LabelBand(label) = StatedBand(bits)
    /\ LabelBand(label) \in 2..7 =>
           CountOf(label, LabelBand(label)) = StatedCount(bits, LabelBand(label))
    /\ \A fewer \in EstimateBits :
           fewer <= bits => StatedBand(fewer) <= LabelBand(label)
    /\ bits = 128 * Micro => label = MillenniaPlus

\* C17 (crack-time bands): estimate_from_entropy(bits) returns "Instant" for
\* bits <= 0 and otherwise the label of the band that holds
\* seconds = 2^bits / (2 * rate), for every bits: the bands cover every time,
\* the band never moves to a shorter one as bits grows, and 128 bits give
\* "Millennia+".
C17_Bands ==
    call.op = "estimate_from_entropy" =>
        /\ ret.kind = "return"
        /\ EstimateAsStated(call.entropy, ret.value)

\* The same of the estimates the call does return.
C17_ReturnedEstimates ==
    Returned("estimate_from_entropy") =>
        EstimateAsStated(call.entropy, ret.value)

\* 128 bits have been given "Millennia+".
C17_Witness ==
    /\ Returned("estimate_from_entropy")
    /\ call.entropy = 128 * Micro
    /\ ret.value = MillenniaPlus

\* What the claim says of the wording of a label: in a counted band the unit
\* is singular exactly when the count is 1.
PluralizedAsStated(label) ==
    LabelBand(label) \in 2..7 =>
        label = IF CountOf(label, LabelBand(label)) = 1
                    THEN Singular(1, LabelBand(label))
                    ELSE Plural(CountOf(label, LabelBand(label)),
                                LabelBand(label))

\* C18 (pluralization): in every counted band (seconds, minutes, hours, days,
\* months, years) the unit word of a crack-time label is singular exactly
\* when the count is 1 and carries a trailing "s" otherwise; no label
\* "1 <unit>s" is produced, by estimate_from_entropy or in a report of analyze.
C18_Pluralization ==
    /\ Returned("estimate_from_entropy") => PluralizedAsStated(ret.value)
    /\ Returned("analyze") => PluralizedAsStated(ret.value.crack_time)

\* The same of the bands from minutes to years.
C18_MinutesToYears ==
    (Returned("estimate_from_entropy") /\ LabelBand(ret.value) \in 3..7) =>
        PluralizedAsStated(ret.value)

\* A count of 1 has been worded in the singular: "1 minute" at 37 bits.
C18_Witness ==
    /\ Returned("estimate_from_entropy")
    /\ call.entropy = 37 * Micro
    /\ ret.value = Singular(1, 3)

\* The level the claim gives each band.
StatedLevel(band) ==
    IF band \in 0..2 THEN "Very Weak - Crackable instantly"
    ELSE IF band \in 3..4 THEN "Weak - Crackable in hours"
    ELSE IF band = 5 THEN "Moderate - Crackable in days"
    ELSE IF band = 6 THEN "Good - Crackable in months"
    ELSE IF band = 7 THEN "Strong - Crackable in years"
    ELSE "Very Strong - Crackable in centuries+"

\* The levels from the lowest to the highest.
LevelRank(level) ==
    CHOOSE k \in 0..5 :
        level = <<"Very Weak - Crackable instantly", "Weak - Crackable in hours",
                  "Moderate - Crackable in days", "Good - Crackable in months",
                  "Strong - Crackable in years",
                  "Very Strong - Crackable in centuries+">>[k + 1]

\* The estimate of the module-level estimator for the bits.
EstimateOf(bits) == estimate_from_entropy(analyzer.crack_time_estimator, bits)

\* What the claim says of the outcome of get_security_level, given that of
\* estimate_from_entropy for the same bits: the level of the estimate's
\* band, no lower than the level of the estimate of any fewer bits; where
\* there is no estimate there is no level.
LevelAsStated(bits, estimate, outcome) ==
    IF estimate.kind = "return"
    THEN /\ outcome = Return(StatedLevel(LabelBand(estimate.value)))
         /\ \A fewer \in EstimateBits :
                (fewer <= bits /\ EstimateOf(fewer).kind = "return") =>
                    LevelRank(StatedLevel(LabelBand(EstimateOf(fewer).value)))
                        <= LevelRank(outcome.value)
    ELSE outcome = estimate

\* C19 (security level): get_security_level(bits) is determined by the band
\* of estimate_from_entropy(bits): Instant, "Less than 1 second" and seconds
\* give Very Weak, minutes and hours Weak, days Moderate, months Good, years
\* Strong, "Centuries" and "Millennia+" Very Strong; no label matches the
\* test of an earlier class, and the level never decreases as bits grows.
C19_Levels ==
    call.op = "get_security_level" =>
        LevelAsStated(call.entropy, EstimateOf(call.entropy), ret)

\* A label of the years band, which ends in the letters of no earlier class,
\* has been given the Strong level.
C19_Witness ==
    /\ Returned("get_security_level")
    /\ LabelBand(EstimateOf(call.entropy).value) = 7
    /\ ret.value = "Strong - Crackable in years"

----------------------------------------------------------------------------
(* Properties of concurrent calls *)

\* The draws of the k-th generate of a call; none where it made none.
DrawnAt(thread, k) ==
    IF k <= Len(thread.drawn) THEN thread.drawn[k] ELSE NoDraws

\* What a thread's call returns when run alone, on instances no other call
\* has touched, with the same arguments and the same draws.
Alone(thread) ==
    CASE thread.call.op = "analyze" ->
             analyze(PasswordAnalyzer_init, thread.call.password)
      [] thread.call.op = "validate" ->
             validate(PolicyValidator_init(PasswordPolicy_init),
                      thread.call.password)
      [] thread.call.op = "generate" ->
             generate(thread.call.length, thread.call.options,
                      DrawnAt(thread, 1))
      [] thread.call.op = "generate_multiple" ->
             generate_multiple(thread.call.count, thread.call.length,
                               thread.call.options,
                               [k \in 1..thread.call.count |->
                                   DrawnAt(thread, k)])

\* C20 (no interaction): in every interleaving of the steps of generate,
\* generate_multiple, analyze and validate calls made by several threads on
\* the shared generator, analyzer, policy and validator, each call that has
\* ended has the outcome it has when run alone with the same arguments and
\* the same random draws.
C20_NoInteraction ==
    \A t \in Threads :
        threads[t].pc = "done" => threads[t].ret = Alone(threads[t])

\* Two calls that overlapped have both ended: an analyze of one string and a
\* validate of another, each with steps taken while the other was running.
C20_Witness ==
    /\ threads[1].pc = "done" /\ threads[2].pc = "done"
    /\ threads[1].overlapped /\ threads[2].overlapped
    /\ threads[1].call.op = "analyze" /\ threads[2].call.op = "validate"
    /\ threads[1].call.password # <<>> /\ threads[2].call.password # <<>>
    /\ threads[1].call.password # threads[2].call.password
    /\ threads[1].ret.kind = "return" /\ threads[2].ret.kind = "return"

----------------------------------------------------------------------------
(* Properties of the instances *)

\* C21 (no retention): in every state reached by calls of generate,
\* generate_multiple, analyze and validate, every field of the generator, the
\* analyzer with its detector, scorer and estimator, and the validator with
\* its policy and analyzer has the value it had after construction, so none
\* holds anything of a generated or analyzed password.
C21_NoRetention ==
    /\ generator = PasswordGenerator_init
    /\ analyzer = PasswordAnalyzer_init
    /\ validator = PolicyValidator_init(PasswordPolicy_init)
    /\ validator.policy = PasswordPolicy_init
    /\ validator.analyzer = PasswordAnalyzer_init

\* A generated password has been handed on to validate, after which the
\* instances are as constructed.
C21_Witness ==
    /\ Returned("validate")
    /\ call.generated # <<>>
    /\ Len(call.password) >= MIN_PASSWORD_LENGTH
    /\ generator = PasswordGenerator_init
    /\ analyzer = PasswordAnalyzer_init
----------------------------------------------------------------------------
(* Properties of the messages *)

\* What the report of analyze tells of a string's shape: its length, the four
\* class flags and the six pattern flags.
ShapeOf(password) ==
    character_types(password)
        @@ detect_all_patterns(PasswordAnalyzer_init.pattern_detector, password)

\* The exception the checks of generate raise for a length and options.
StatedError(length, options) ==
    IF length < MIN_PASSWORD_LENGTH \/ length > MAX_PASSWORD_LENGTH
    THEN InvalidLengthError(length, MIN_PASSWORD_LENGTH, MAX_PASSWORD_LENGTH)
    ELSE IF \A k \in OptionKeys : ~options[k] THEN InvalidCharsetError
    ELSE InvalidLengthError(length, Cardinality({k \in OptionKeys : options[k]}),
                            MAX_PASSWORD_LENGTH)

\* The fields of a validation result that the user is shown.
Shown(result) ==
    [errors |-> result.errors, warnings |-> result.warnings,
     score |-> result.score, strength |-> result.strength]

\* C22 (messages do not depend on password content): under any policy, two
\* passwords with the same length, the same four class flags and the same
\* six pattern flags get the same errors, warnings, score and strength from
\* validate; and an exception raised by generate is determined by the length
\* and the options of the call.
C22_ContentIndependent ==
    /\ (Returned("validate_twice")
        /\ ShapeOf(call.password) = ShapeOf(call.other))
           => Shown(ret.value[1]) = Shown(ret.value[2])
    /\ Raised("generate")
           => ret = Raise(StatedError(call.length, call.options))

\* Strings that the validator's own four class tests tell apart are left out.
ValidatorTests(password) ==
    [upper |-> \E i \in DOMAIN password : str_isupper(password[i]),
     lower |-> \E i \in DOMAIN password : str_islower(password[i]),
     digit |-> \E i \in DOMAIN password : str_isdigit(password[i]),
     symbol |-> \E i \in DOMAIN password : ~str_isalnum(password[i])]

C22_SameTests ==
    /\ (Returned("validate_twice")
        /\ ShapeOf(call.password) = ShapeOf(call.other)
        /\ ValidatorTests(call.password) = ValidatorTests(call.other))
           => Shown(ret.value[1]) = Shown(ret.value[2])
    /\ Raised("generate")
           => ret = Raise(StatedError(call.length, call.options))

\* Two different strings of one shape, one of them refused.
C22_Witness ==
    /\ Returned("validate_twice")
    /\ call.password # call.other
    /\ ShapeOf(call.password) = ShapeOf(call.other)
    /\ ret.value[1].errors # <<>>
    /\ ret.value[1].errors = ret.value[2].errors
----------------------------------------------------------------------------
(* Properties of the character sets *)

\* The strings of a list joined in order.
RECURSIVE Joined(_)
Joined(strings) ==
    IF strings = <<>> THEN <<>> ELSE Head(strings) \o Joined(Tail(strings))

\* The sub-alphabets of the enabled categories in the order uppercase,
\* lowercase, digits, symbols.
EnabledInOrder(options) ==
    LET keys == <<"uppercase", "lowercase", "numbers", "symbols">>
        alphabets == <<UPPERCASE, LOWERCASE, DIGITS, SYMBOLS>>
        IsOn(i) == options[keys[i]]
        on == SelectSeq(<<1, 2, 3, 4>>, IsOn)
    IN  [k \in DOMAIN on |-> alphabets[on[k]]]

\* The sum of 26, 26, 10 and 32 over the enabled categories.
StatedSize(options) ==
    (IF options["uppercase"] THEN 26 ELSE 0)
    + (IF options["lowercase"] THEN 26 ELSE 0)
    + (IF options["numbers"] THEN 10 ELSE 0)
    + (IF options["symbols"] THEN 32 ELSE 0)

\* C23 (charset agreement): for options with at least one enabled category,
\* build_charset returns the concatenation of the sub-alphabets that
\* get_required_chars returns, which are those of the enabled categories in
\* the order uppercase, lowercase, digits, symbols; the charset holds no
\* character twice; its length is calculate_charset_size(options), which is
\* the 26/26/10/32 sum from which entropy_from_options computes the entropy.
C23_CharsetAgreement ==
    (call.op = "build_charset" /\ \E k \in OptionKeys : call.options[k])
        => /\ ret.kind = "return"
           /\ get_required_chars(call.options) = EnabledInOrder(call.options)
           /\ ret.value = Joined(get_required_chars(call.options))
           /\ \A i, j \in DOMAIN ret.value :
                  ret.value[i] = ret.value[j] => i = j
           /\ Len(ret.value) = calculate_charset_size(call.options)
           /\ calculate_charset_size(call.options) = StatedSize(call.options)
           /\ \A length \in 1..MaxGenLen :
                  entropy_from_options(length, call.options)
                      = Return(length * math_log2(Len(ret.value)))

\* The charset of letters and digits without symbols: 62 characters.
C23_Witness ==
    /\ Returned("build_charset")
    /\ call.options["uppercase"] /\ call.options["lowercase"]
    /\ call.options["numbers"] /\ ~call.options["symbols"]
    /\ Len(ret.value) = 62
    /\ ret.value[27] = LOWERCASE[1]
----------------------------------------------------------------------------
(* Properties of the analysis report *)

\* The alphabet size of a report: 26, 26, 10 and 32 summed over the class
\* flags that are true in it.
FlagSum(report) ==
    (IF report.has_uppercase THEN 26 ELSE 0)
    + (IF report.has_lowercase THEN 26 ELSE 0)
    + (IF report.has_numbers THEN 10 ELSE 0)
    + (IF report.has_symbols THEN 32 ELSE 0)

\* C24 (entropy from the flags of the report): in the report of a non-empty
\* password at least one class flag is true, so that the alphabet size s
\* summed from the flags is at least 10 (never zero) and the diversity score
\* at least 0.25, and the entropy is len(password) * log2(s).
C24_EntropyFromFlags ==
    (Returned("analyze") /\ call.password # <<>>)
        => /\ \/ ret.value.has_uppercase \/ ret.value.has_lowercase
              \/ ret.value.has_numbers \/ ret.value.has_symbols
           /\ FlagSum(ret.value) >= 10
           /\ ret.value.diversity_score >= Micro \div 4
           /\ ret.value.entropy
                  = Len(call.password) * math_log2(FlagSum(ret.value))

\* A report of symbols only (three newlines) and one of all four classes.
C24_Witness ==
    /\ Returned("analyze")
    /\ \/ /\ FlagSum(ret.value) = 32
          /\ ret.value.entropy = 3 * math_log2(32)
       \/ /\ FlagSum(ret.value) = 94
          /\ call.generated # <<>>
\* The positive-affirmation message.
Affirmation == "Password meets security best practices!"

SixPatternFlags ==
    {"has_common_patterns", "has_sequential", "has_keyboard_patterns",
     "has_repeated_chars", "has_date_pattern", "has_number_only_suffix"}

\* The four pattern flags that have a recommendation.
WarnedPatternFlags ==
    {"has_common_patterns", "has_sequential", "has_keyboard_patterns",
     "has_repeated_chars"}

\* The number of conditions that hold of a report, counting the pattern
\* flags of the given set.
ConditionsHolding(report, flags) ==
    (IF report.length < 12 THEN 1 ELSE 0)
    + Cardinality({k \in {"has_uppercase", "has_lowercase", "has_numbers",
                          "has_symbols"} : ~report[k]})
    + Cardinality({k \in flags : report[k]})
    + (IF report.entropy < 40 * Micro THEN 1 ELSE 0)

\* One entry for each condition that holds, and the affirmation alone when
\* none does.
OneEntryForEach(report, flags) ==
    /\ report.recommendations # <<>>
    /\ (\E i \in DOMAIN report.recommendations :
            report.recommendations[i] = Affirmation)
           <=> ConditionsHolding(report, flags) = 0
    /\ ConditionsHolding(report, flags) = 0
           => report.recommendations = <<Affirmation>>
    /\ ConditionsHolding(report, flags) > 0
           => Len(report.recommendations) = ConditionsHolding(report, flags)

\* The conditions in their fixed order, each with its entry.
StatedEntries(report) ==
    <<<<report.length < 8, "Increase length to at least 8 characters">>,
      <<report.length >= 8 /\ report.length < 12,
        "Consider increasing length to 12+ characters">>,
      <<~report.has_uppercase, "Add uppercase letters (A-Z)">>,
      <<~report.has_lowercase, "Add lowercase letters (a-z)">>,
      <<~report.has_numbers, "Add numbers (0-9)">>,
      <<~report.has_symbols, "Add symbols (!@#$...)">>,
      <<report.has_common_patterns, "Avoid common words and patterns">>,
      <<report.has_sequential, "Avoid sequential characters (abc, 123)">>,
      <<report.has_keyboard_patterns, "Avoid keyboard patterns (qwerty)">>,
      <<report.has_repeated_chars, "Avoid repeated characters (aaa, 111)">>,
      <<report.entropy < 40 * Micro,
        "Significantly increase password complexity">>>>

Holds(entry) == entry[1]

StatedRecommendations(report) ==
    LET kept == SelectSeq(StatedEntries(report), Holds)
    IN  [i \in DOMAIN kept |-> kept[i][2]]

\* C25 as stated (recommendations, with all six pattern flags): the report of
\* a non-empty password has exactly one recommendation for each condition
\* that holds, the six pattern flags among the conditions, and the
\* affirmation alone if and only if no condition holds.
C25_SixFlags ==
    (Returned("analyze") /\ call.password # <<>>)
        => OneEntryForEach(ret.value, SixPatternFlags)

\* C25 (recommendations): the report of a non-empty password has, in the
\* fixed order, exactly one recommendation for each condition that holds:
\* length < 8 (else length < 12), each missing class, each true flag among
\* has_common_patterns, has_sequential, has_keyboard_patterns and
\* has_repeated_chars, and entropy < 40; has_date_pattern and
\* has_number_only_suffix add none. The affirmation is the only entry if and
\* only if none of these conditions holds, and the list is never empty.
C25_Recommendations ==
    (Returned("analyze") /\ call.password # <<>>)
        => /\ OneEntryForEach(ret.value, WarnedPatternFlags)
           /\ ConditionsHolding(ret.value, WarnedPatternFlags) > 0
                  => ret.value.recommendations
                         = StatedRecommendations(ret.value)

\* The affirmation for a password that ends in a digit, or holds a date; and
\* a list of several entries in their order.
C25_Witness ==
    /\ Returned("analyze")
    /\ \/ /\ ret.value.recommendations = <<Affirmation>>
          /\ ret.value.has_number_only_suffix \/ ret.value.has_date_pattern
       \/ /\ Len(ret.value.recommendations) >= 4
          /\ ret.value.has_common_patterns
\* The fields of AnalysisReport.
ReportFields ==
    {"length", "has_uppercase", "has_lowercase", "has_numbers", "has_symbols",
     "diversity_score", "entropy", "detected_patterns", "score", "strength",
     "crack_time", "security_level", "recommendations"}
        \cup SixPatternFlags

\* C26 (complete reports): every report analyze returns, for the empty
\* string as for any other, holds all fields of AnalysisReport: length, the
\* four class flags, diversity score, entropy, the six pattern flags (each a
\* boolean), the detected-pattern names, score, strength, crack time,
\* security level and recommendations.
C26_AllFields ==
    Returned("analyze")
        => /\ DOMAIN ret.value = ReportFields
           /\ \A k \in SixPatternFlags : ret.value[k] \in BOOLEAN

\* The reports of non-empty strings hold all fields.
C26_NonEmptyReports ==
    (Returned("analyze") /\ call.password # <<>>)
        => /\ DOMAIN ret.value = ReportFields
           /\ \A k \in SixPatternFlags : ret.value[k] \in BOOLEAN

\* The report of the empty string, which has the class flags and the
\* estimates.
C26_Witness ==
    /\ Returned("analyze")
    /\ call.password = <<>>
    /\ {"has_uppercase", "crack_time", "detected_patterns"}
           \subseteq DOMAIN ret.value
----------------------------------------------------------------------------
(* Properties of the shuffle as a map from draws to outputs *)

RECURSIVE Factorial(_)
Factorial(n) == IF n <= 1 THEN 1 ELSE n * Factorial(n - 1)

AllDifferent(items) ==
    \A i, j \in DOMAIN items : items[i] = items[j] => i = j

\* The lists secure_shuffle returns for a list, over all draws of its loop.
Outputs(items) ==
    {secure_shuffle(items, js).result : js \in ShuffleDraws(Len(items))}

IsPermutationOf(out, items) ==
    /\ Len(out) = Len(items)
    /\ Range(out) = Range(items)

\* The draws are n - 1 values, the one at loop index i in 0..i; they and the
\* outputs are n! each, the outputs permutations of the list, and the
\* returned list comes from the draws made and from no others.
BijectionAt(items, n, draws, result, outputs) ==
    /\ Len(draws) = (IF n = 0 THEN 0 ELSE n - 1)
    /\ \A i \in DOMAIN draws : draws[i] \in 0..i
    /\ Cardinality(ShuffleDraws(n)) = Factorial(n)
    /\ Cardinality(outputs) = Factorial(n)
    /\ \A out \in outputs : IsPermutationOf(out, items)
    /\ result \in outputs
    /\ \A js \in ShuffleDraws(n) :
           secure_shuffle(items, js).result = result => js = draws
    /\ \A k, p \in 1..n : \E out \in outputs : out[p] = items[k]

\* C27 (the shuffle as a bijection): for a list of n different items the loop
\* of secure_shuffle makes n - 1 draws, the draw at index i in 0..i; the n!
\* draw sequences give n! different outputs, each a permutation of the list,
\* so that every permutation comes from exactly one draw sequence, and every
\* item can end at every position.
C27_ShuffleBijection ==
    (Returned("secure_shuffle") /\ AllDifferent(call.items))
        => BijectionAt(call.items, Len(call.items), call.draws, ret.value,
                       Outputs(call.items))

\* A list of MaxItems different items whose first item ends last.
C27_Witness ==
    /\ Returned("secure_shuffle")
    /\ AllDifferent(call.items)
    /\ Len(call.items) = MaxItems
    /\ ret.value[MaxItems] = call.items[1]
    /\ ret.value[1] = call.items[MaxItems]
----------------------------------------------------------------------------
(* Properties of the entropy points *)

\* C28 (entropy points monotone): for all bits1 <= bits2,
\* _score_entropy(bits1) <= _score_entropy(bits2), across the 40-bit boundary
\* between floor(bits / 2) and the 18-point band as everywhere else.
C28_ScoreEntropyMonotone ==
    call.op = "score_entropy"
        => \A bits2 \in ScoredBits :
               call.entropy <= bits2 => ret.value <= _score_entropy(bits2)

\* Outside 38 <= bits < 40 the points do not decrease.
C28_OutsideTheDip ==
    (call.op = "score_entropy"
     /\ (call.entropy < 38 * Micro \/ call.entropy >= 40 * Micro))
        => \A bits2 \in ScoredBits :
               call.entropy <= bits2 => ret.value <= _score_entropy(bits2)

\* 39 bits score 19 points, one more than the 18 points of 40 bits.
C28_Witness ==
    /\ Returned("score_entropy")
    /\ call.entropy = 39 * Micro
    /\ ret.value = 19
    /\ EntropyPoints(40 * Micro) = 18
----------------------------------------------------------------------------
(* Properties of the affirmation *)

\* C29 (affirmation only for very strong passwords): a report of analyze
\* whose only recommendation is the positive-affirmation message has a score
\* of at least 80 and the strength "Very Strong", also when its date-pattern
\* or numeric-suffix flag is true.
C29_AffirmationVeryStrong ==
    (Returned("analyze") /\ ret.value.recommendations = <<Affirmation>>)
        => /\ ret.value.score >= 80
           /\ ret.value.strength = "Very Strong"
           /\ ret.value.strength \notin {"Weak", "Medium", "Strong"}

\* The affirmation for twelve characters that hold a date: 83 points.
C29_Witness ==
    /\ Returned("analyze")
    /\ ret.value.recommendations = <<Affirmation>>
    /\ ret.value.has_date_pattern
    /\ ret.value.length = 12
    /\ ret.value.score = 83
----------------------------------------------------------------------------
(* Properties of the classification by validator and analyzer *)

\* The four classes: the switch of the policy, the flag of the analysis and
\* the error of validate for a missing class.
ClassChecks ==
    {[require |-> "require_uppercase", flag |-> "has_uppercase",
      error |-> "Password must contain at least one uppercase letter"],
     [require |-> "require_lowercase", flag |-> "has_lowercase",
      error |-> "Password must contain at least one lowercase letter"],
     [require |-> "require_numbers", flag |-> "has_numbers",
      error |-> "Password must contain at least one number"],
     [require |-> "require_symbols", flag |-> "has_symbols",
      error |-> "Password must contain at least one symbol"]}

\* validate reports a required class as missing exactly when the analysis of
\* the same password has the flag of the class false.
MissingAsAnalyzed(policy, password, errors) ==
    \A c \in ClassChecks :
        policy[c.require]
            => ((\E i \in DOMAIN errors : errors[i] = Message(c.error, <<>>))
                    <=> ~character_types(password)[c.flag])

\* C30 (validator and analyzer classify alike): for every password the four
\* class tests of validate give the four class flags of the analysis of the
\* same password, so validate reports a required class as missing exactly
\* when that analysis reports it absent.
C30_SameClasses ==
    Returned("validate_with")
        => /\ ValidatorTests(call.password).upper
                  = character_types(call.password).has_uppercase
           /\ ValidatorTests(call.password).lower
                  = character_types(call.password).has_lowercase
           /\ ValidatorTests(call.password).digit
                  = character_types(call.password).has_numbers
           /\ ValidatorTests(call.password).symbol
                  = character_types(call.password).has_symbols
           /\ MissingAsAnalyzed(call.policy, call.password, ret.value.errors)

\* For passwords of ASCII characters the two classifications agree.
C30_AsciiPasswords ==
    (Returned("validate_with")
     /\ \A i \in DOMAIN call.password : call.password[i] < 128)
        => /\ ValidatorTests(call.password).upper
                  = character_types(call.password).has_uppercase
           /\ ValidatorTests(call.password).lower
                  = character_types(call.password).has_lowercase
           /\ ValidatorTests(call.password).digit
                  = character_types(call.password).has_numbers
           /\ ValidatorTests(call.password).symbol
                  = character_types(call.password).has_symbols
           /\ MissingAsAnalyzed(call.policy, call.password, ret.value.errors)

\* A string with non-ASCII letters under a policy that requires symbols:
\* validate reports the symbols missing, the analysis has has_symbols true.
C30_Witness ==
    /\ Returned("validate_with")
    /\ call.policy.require_symbols
    /\ \E i \in DOMAIN call.password : call.password[i] >= 128
    /\ \E i \in DOMAIN ret.value.errors :
           ret.value.errors[i]
               = Message("Password must contain at least one symbol", <<>>)
    /\ character_types(call.password).has_symbols

====
